---- MODULE Spec2Model ----
(***************************************************************************)
(* Garment flow scheduler: the process registry of ProcessesGrid, the      *)
(* cell editor (tail-first balancer) of ScheduleGrid and the working-day   *)
(* arithmetic both rest on.                                                *)
(*                                                                         *)
(* Dates.  The code holds dates as ISO "yyyy-mm-dd" strings and converts   *)
(* them to Date objects to step through days.  Here an ISO string is the   *)
(* triple <<y, m, d>> (compared as the strings are, field by field) and a  *)
(* Date object is a day number, day 1 being 2023-12-01.  The local zone is *)
(* taken to have a fixed UTC offset over the modelled window (no DST       *)
(* change): new Date(iso) is UTC midnight, setDate() moves whole local     *)
(* days and toISOString() reads the UTC date back, so day arithmetic is    *)
(* exact, while getDay() reads the LOCAL weekday, which is the weekday of  *)
(* the day before when the zone is behind UTC (tzBehind).                  *)
(***************************************************************************)
EXTENDS Integers, Sequences, FiniteSets, TLC

VARIABLES
    tzBehind,             \* environment: local zone is behind UTC
    viewLevel,            \* ProcessesGrid state: selected view level
    calendar,             \* ProcessesGrid state: working calendar
    sewingSchedule,       \* ProcessesGrid state: primary (sewing) schedule
    sewingStartDate,      \* ProcessesGrid state: timeline start date
    sewingDurationDays,   \* ProcessesGrid state: timeline duration
    sewingTotalQuantity,  \* ProcessesGrid state: timeline total quantity
    processData,          \* ProcessesGrid state: the process registry
    editingCell,          \* ScheduleGrid state: cell in edit mode or NoCell
    editValue,            \* ScheduleGrid state: text of the cell input
    effectPending,        \* the [sewingSchedule, calendar] effect is due
    windowStartDate,      \* SewingTimeline state: first date of the day axis
    dragState,            \* SewingTimeline state: the drag under way or NoDrag
    lastOp,               \* history: the handler that ran last
    nOps,                 \* history: number of handlers run
    pureIn,               \* input of the pure-function specification
    pureOut               \* its result

vars == <<tzBehind, viewLevel, calendar, sewingSchedule, sewingStartDate,
          sewingDurationDays, sewingTotalQuantity, processData, editingCell,
          editValue, effectPending, windowStartDate, dragState, lastOp, nOps,
          pureIn, pureOut>>

-----------------------------------------------------------------------------
(* Bounds of the model *)

\* number of user operations in a run (typing into the open input aside)
MaxOps == 3

-----------------------------------------------------------------------------
(* ISO dates and Date objects *)

\* the months of the modelled window: <<year, month, days in month>>
MonthTable ==
    << <<2023, 12, 31>>, <<2024, 1, 31>>, <<2024, 2, 29>>,
       <<2024, 3, 31>>, <<2024, 4, 30>>, <<2024, 5, 31>>,
       <<2024, 6, 30>>, <<2024, 7, 31>>, <<2024, 8, 31>>,
       <<2024, 9, 30>> >>

RECURSIVE DaysBeforeMonth(_)
DaysBeforeMonth(i) ==
    IF i <= 1 THEN 0 ELSE DaysBeforeMonth(i - 1) + MonthTable[i - 1][3]

\* day number of the last day before each month of the window
MonthStart == [i \in 1..Len(MonthTable) |-> DaysBeforeMonth(i)]

\* the day numbers of the window
DayNumbers == 1..(MonthStart[Len(MonthTable)] + MonthTable[Len(MonthTable)][3])

MonthIndex(iso) ==
    CHOOSE i \in 1..Len(MonthTable) :
        MonthTable[i][1] = iso[1] /\ MonthTable[i][2] = iso[2]

\* new Date(iso): the day number of an ISO date
NewDate(iso) == MonthStart[MonthIndex(iso)] + iso[3]

\* the ISO date of each day number of the window
ISOOfDay ==
    [n \in DayNumbers |->
        LET i == CHOOSE j \in 1..Len(MonthTable) :
                     /\ MonthStart[j] < n
                     /\ n <= MonthStart[j] + MonthTable[j][3]
        IN  <<MonthTable[i][1], MonthTable[i][2], n - MonthStart[i]>>]

\* date.toISOString().split('T')[0]
toISO(n) == ISOOfDay[n]

\* addDays(iso, n) of ScheduleGrid and SewingTimeline
addDays(iso, n) == toISO(NewDate(iso) + n)

\* a.localeCompare(b) < 0 on ISO strings
ISOLess(a, b) ==
    \/ a[1] < b[1]
    \/ a[1] = b[1] /\ a[2] < b[2]
    \/ a[1] = b[1] /\ a[2] = b[2] /\ a[3] < b[3]

\* date.getDay(): local weekday, 0 = Sunday .. 6 = Saturday
\* (2023-12-01, day 1, is a Friday)
getDay(n) == (n + 4 + (IF tzBehind THEN 6 ELSE 0)) % 7

-----------------------------------------------------------------------------
(* Working calendar (ProcessesGrid) *)

isWeekend(n) == getDay(n) = 0 \/ getDay(n) = 6

isHolidayISO(iso, cal) == iso \in cal.holidays

isNonWorking(n, cal) ==
    IF isHolidayISO(toISO(n), cal) THEN TRUE
    ELSE IF cal.weekendsOff /\ isWeekend(n) THEN TRUE
    ELSE FALSE

\* the while loop of addWorkingDaysFromISO
RECURSIVE StepWorkingDays(_, _, _, _)
StepWorkingDays(n, remaining, direction, cal) ==
    IF remaining > 0
    THEN LET next == n + direction
         IN  StepWorkingDays(next,
                 IF ~isNonWorking(next, cal) THEN remaining - 1 ELSE remaining,
                 direction, cal)
    ELSE n

Abs(x) == IF x < 0 THEN -x ELSE x

\* a variant that shifts by calendar days, whatever the calendar
addCalendarDaysFromISO(isoDate, offsetWorkingDays, cal) ==
    toISO(NewDate(isoDate) + offsetWorkingDays)

\* a variant that moves a non-working start to the next working day before
\* stepping, also when the offset is 0
RECURSIVE snapForward(_, _)
snapForward(n, cal) == IF isNonWorking(n, cal) THEN snapForward(n + 1, cal) ELSE n

addWorkingDaysSnapping(isoDate, offsetWorkingDays, cal) ==
    LET start == snapForward(NewDate(isoDate), cal)
    IN  IF offsetWorkingDays = 0 THEN toISO(start)
        ELSE toISO(StepWorkingDays(start, Abs(offsetWorkingDays),
                                   IF offsetWorkingDays > 0 THEN 1 ELSE -1, cal))

addWorkingDaysFromISO(isoDate, offsetWorkingDays, cal) ==
    IF offsetWorkingDays = 0 THEN isoDate
    ELSE toISO(StepWorkingDays(NewDate(isoDate), Abs(offsetWorkingDays),
                               IF offsetWorkingDays > 0 THEN 1 ELSE -1, cal))

-----------------------------------------------------------------------------
(* Schedules: sequences of [date, quantity] *)

Day(date, quantity) == [date |-> date, quantity |-> quantity]

RECURSIVE SumQuantity(_)
SumQuantity(s) ==
    IF s = <<>> THEN 0 ELSE s[1].quantity + SumQuantity(Tail(s))

\* index of the first entry dated date, 0 when there is none (findIndex)
RECURSIVE FindIndexFrom(_, _, _)
FindIndexFrom(s, date, i) ==
    IF i > Len(s) THEN 0
    ELSE IF s[i].date = date THEN i
    ELSE FindIndexFrom(s, date, i + 1)

findIndex(s, date) == FindIndexFrom(s, date, 1)

\* s.splice(i, 1)
splice(s, i) == SubSeq(s, 1, i - 1) \o SubSeq(s, i + 1, Len(s))

\* insert e into the sorted sequence s after every entry not later than it
RECURSIVE InsertSorted(_, _)
InsertSorted(s, e) ==
    IF s = <<>> THEN <<e>>
    ELSE IF ISOLess(e.date, s[1].date) THEN <<e>> \o s
    ELSE <<s[1]>> \o InsertSorted(Tail(s), e)

\* a variant that leaves the entries in the order it finds them
keepOrder(s) == s

\* s.sort((a, b) => a.date.localeCompare(b.date)): a stable sort by date
RECURSIVE sortByDate(_)
sortByDate(s) ==
    IF s = <<>> THEN <<>>
    ELSE InsertSorted(sortByDate(SubSeq(s, 1, Len(s) - 1)), s[Len(s)])

-----------------------------------------------------------------------------
(* Offset scheduler (ProcessesGrid) *)

\* aggregated.set(targetDate, (aggregated.get(targetDate) || 0) + quantity):
\* the Map is a sequence of entries in insertion order (mapSet is a variant
\* that overwrites the quantity instead of adding to it)
mapSet(aggregated, targetDate, quantity) ==
    LET i == findIndex(aggregated, targetDate)
    IN  IF i = 0 THEN Append(aggregated, Day(targetDate, quantity))
        ELSE [aggregated EXCEPT ![i].quantity = quantity]

mapAdd(aggregated, targetDate, quantity) ==
    LET i == findIndex(aggregated, targetDate)
    IN  IF i = 0 THEN Append(aggregated, Day(targetDate, quantity))
        ELSE [aggregated EXCEPT ![i].quantity = @ + quantity]

RECURSIVE aggregateFrom(_, _, _, _, _)
aggregateFrom(baseSchedule, i, offsetDays, cal, aggregated) ==
    IF i > Len(baseSchedule) THEN aggregated
    ELSE aggregateFrom(baseSchedule, i + 1, offsetDays, cal,
             mapAdd(aggregated,
                    addWorkingDaysFromISO(baseSchedule[i].date, offsetDays, cal),
                    baseSchedule[i].quantity))

calculateScheduleFromOffsetWorkingDays(baseSchedule, offsetDays, cal) ==
    IF Len(baseSchedule) = 0 THEN <<>>
    ELSE sortByDate(aggregateFrom(baseSchedule, 1, offsetDays, cal, <<>>))

-----------------------------------------------------------------------------
(* Strip distributor (ProcessesGrid.recalcSewingSchedule) *)

\* the for loop collecting the working days of the strip window
RECURSIVE workingDaysFrom(_, _, _, _)
workingDaysFrom(start, i, durationDays, cal) ==
    IF i >= durationDays THEN <<>>
    ELSE (IF ~isNonWorking(start + i, cal) THEN <<toISO(start + i)>> ELSE <<>>)
         \o workingDaysFrom(start, i + 1, durationDays, cal)

\* a variant without the filter: every working day keeps its entry
RECURSIVE distributeKeepingZeros(_, _, _, _)
distributeKeepingZeros(days, idx, perDay, remainder) ==
    IF idx > Len(days) THEN <<>>
    ELSE <<Day(days[idx], perDay + (IF idx - 1 < remainder THEN 1 ELSE 0))>>
         \o distributeKeepingZeros(days, idx + 1, perDay, remainder)

\* a variant that gives every working day the floor and drops the remainder
RECURSIVE distributeWithoutRemainder(_, _, _, _)
distributeWithoutRemainder(days, idx, perDay, remainder) ==
    IF idx > Len(days) THEN <<>>
    ELSE (IF perDay > 0 THEN <<Day(days[idx], perDay)>> ELSE <<>>)
         \o distributeWithoutRemainder(days, idx + 1, perDay, remainder)

\* a % b of JavaScript for b > 0: the result has the sign of a
jsRemainder(a, b) == IF a >= 0 THEN a % b ELSE -((-a) % b)

\* days.map(...).filter(d => d.quantity > 0)
RECURSIVE distributeFrom(_, _, _, _)
distributeFrom(days, idx, perDay, remainder) ==
    IF idx > Len(days) THEN <<>>
    ELSE LET quantity == perDay + (IF idx - 1 < remainder THEN 1 ELSE 0)
         IN  (IF quantity > 0 THEN <<Day(days[idx], quantity)>> ELSE <<>>)
             \o distributeFrom(days, idx + 1, perDay, remainder)

\* the schedule recalcSewingSchedule hands to setSewingSchedule; \div is
\* Math.floor of the quotient
recalcSewingSchedule(startDate, durationDays, totalQty, cal) ==
    LET days == workingDaysFrom(NewDate(startDate), 0, durationDays, cal)
        workingDays == Len(days)
    IN  IF workingDays = 0 THEN <<>>
        ELSE distributeFrom(days, 1, totalQty \div workingDays,
                            jsRemainder(totalQty, workingDays))

-----------------------------------------------------------------------------
(* View levels (ScheduleGrid.VIEW_LEVEL_CONFIGS); a multiplier is num/den *)

ViewLevels == {"strip", "planning-unit", "order", "style"}

VIEW_LEVEL_CONFIGS ==
    [level \in ViewLevels |->
        CASE level = "strip" ->
                 [num |-> 1, den |-> 1, isEditable |-> TRUE]
          [] level = "planning-unit" ->
                 [num |-> 5, den |-> 2, isEditable |-> FALSE]
          [] level = "order" ->
                 [num |-> 7, den |-> 1, isEditable |-> FALSE]
          [] level = "style" ->
                 [num |-> 10, den |-> 1, isEditable |-> FALSE]]

currentViewConfig == VIEW_LEVEL_CONFIGS[viewLevel]

\* a variant that cuts the fraction off
roundDown(q, config) == (q * config.num) \div config.den

\* Math.round(q * multiplier) for q >= 0: halves round up
roundScaled(q, config) == (2 * q * config.num + config.den) \div (2 * config.den)

\* getQuantityForDate: the quantity a cell shows at the view level
getQuantityForDate(schedule, date, config) ==
    LET i == findIndex(schedule, date)
        baseQuantity == IF i > 0 THEN schedule[i].quantity ELSE 0
    IN  roundScaled(baseQuantity, config)

-----------------------------------------------------------------------------
(* The process registry *)

ProcIds == {"1", "2", "3", "4"}

Process(offsetDays, isPrimary, schedule) ==
    [offsetDays |-> offsetDays, isPrimary |-> isPrimary, schedule |-> schedule,
     isManualOverride |-> FALSE, isFrozen |-> FALSE]

\* useState initial values of sewingSchedule and processData
InitialSewingSchedule ==
    << Day(<<2024, 2, 15>>, 500), Day(<<2024, 2, 16>>, 500),
       Day(<<2024, 2, 17>>, 500), Day(<<2024, 2, 18>>, 300) >>

InitialProcessData ==
    [id \in ProcIds |->
        CASE id = "1" -> Process(-3, FALSE, <<>>)
          [] id = "2" -> Process(0, TRUE, InitialSewingSchedule)
          [] id = "3" -> Process(2, FALSE, <<>>)
          [] id = "4" -> Process(5, FALSE, <<>>)]

\* processData.find(p => p.isPrimary)
primaryProcess == CHOOSE id \in ProcIds : processData[id].isPrimary

\* ScheduleGrid.primaryTotal: the primary's total scaled by the view level
primaryTotal ==
    roundScaled(SumQuantity(processData[primaryProcess].schedule),
                currentViewConfig)

-----------------------------------------------------------------------------
(* Cell input text: a number's decimal text or the empty text *)

NoCell == [processId |-> "", date |-> <<>>]

NumberText(n) == [isNumber |-> TRUE, n |-> n]
EmptyText == [isNumber |-> FALSE, n |-> 0]

\* parseInt(editValue) || 0
parseIntOrZero(text) == IF text.isNumber THEN text.n ELSE 0

Max(a, b) == IF a > b THEN a ELSE b
Min(a, b) == IF a < b THEN a ELSE b

\* a variant that takes the typed number as it is
unclampedQuantity(text) == parseIntOrZero(text)

\* Math.max(0, parseInt(text) || 0): the quantity a save or the timeline's
\* total input takes from the typed text
clampQuantity(text) == Max(0, parseIntOrZero(text))

-----------------------------------------------------------------------------
(* The balancer: the non-primary branch of ScheduleGrid.handleCellSave *)

isEditableCell(d, date) == d.date # date /\ d.quantity > 0

\* excess: the tail-first for loop reducing the other days by delta
RECURSIVE reduceTail(_, _, _, _)
reduceTail(s, i, delta, date) ==
    IF i < 1 \/ delta <= 0 THEN [schedule |-> s, delta |-> delta]
    ELSE IF ~isEditableCell(s[i], date) THEN reduceTail(s, i - 1, delta, date)
    ELSE LET reduction == Min(s[i].quantity, delta)
             quantity == s[i].quantity - reduction
         IN  reduceTail(IF quantity = 0 THEN splice(s, i)
                        ELSE [s EXCEPT ![i].quantity = quantity],
                        i - 1, delta - reduction, date)

\* excess left after the loop: cap the edited cell
reduceEdited(s, delta, date) ==
    LET idx == findIndex(s, date)
    IN  IF delta > 0 /\ idx > 0
        THEN LET reduceMore == Min(s[idx].quantity, delta)
                 quantity == s[idx].quantity - reduceMore
             IN  IF quantity = 0 THEN splice(s, idx)
                 ELSE [s EXCEPT ![idx].quantity = quantity]
        ELSE s

\* a variant in which the earliest other day takes all of need
addEarliest(s, i, need, date) ==
    LET others == {j \in 1..Len(s) : s[j].date # date}
    IN  IF others = {} \/ need <= 0 THEN [schedule |-> s, need |-> need]
        ELSE LET j == CHOOSE x \in others : \A y \in others : x <= y
             IN  [schedule |-> [s EXCEPT ![j].quantity = @ + need], need |-> 0]

\* deficit: the tail-first for loop; the latest other day takes all of need
RECURSIVE addTail(_, _, _, _)
addTail(s, i, need, date) ==
    IF i < 1 \/ need <= 0 THEN [schedule |-> s, need |-> need]
    ELSE IF s[i].date = date THEN addTail(s, i - 1, need, date)
    ELSE addTail([s EXCEPT ![i].quantity = @ + need], i - 1, 0, date)

\* ScheduleGrid's own calendar predicates and nextWorkingDayAfter
isWeekendISO(iso) == getDay(NewDate(iso)) = 0 \/ getDay(NewDate(iso)) = 6

isNonWorkingISO(iso, cal) ==
    (cal.weekendsOff /\ isWeekendISO(iso)) \/ iso \in cal.holidays

RECURSIVE skipNonWorking(_, _)
skipNonWorking(iso, cal) ==
    IF isNonWorkingISO(iso, cal) THEN skipNonWorking(addDays(iso, 1), cal)
    ELSE iso

nextWorkingDayAfter(fromISO, cal) == skipNonWorking(addDays(fromISO, 1), cal)

\* a variant that adds the new value to the entry the day already has
placeEditAdding(sorted, date, newQuantity) ==
    LET currentIndex == findIndex(sorted, date)
    IN  IF currentIndex > 0
        THEN [sorted EXCEPT ![currentIndex].quantity = @ + newQuantity]
        ELSE IF newQuantity > 0
        THEN sortByDate(Append(sorted, Day(date, newQuantity)))
        ELSE sorted

\* the edit placed on the sorted working copy
placeEdit(sorted, date, newQuantity) ==
    LET currentIndex == findIndex(sorted, date)
    IN  IF currentIndex > 0
        THEN [sorted EXCEPT ![currentIndex] = Day(date, newQuantity)]
        ELSE IF newQuantity > 0
        THEN sortByDate(Append(sorted, Day(date, newQuantity)))
        ELSE sorted

\* a variant whose declined confirmation keeps the placed edit
balanceKeepingEdit(schedule, date, newQuantity, targetTotal, cal, allow) ==
    LET placed == placeEdit(sortByDate(schedule), date, newQuantity)
        delta == SumQuantity(placed) - targetTotal
    IN  IF delta > 0
        THEN LET r == reduceTail(placed, Len(placed), delta, date)
             IN  [schedule |-> sortByDate(reduceEdited(r.schedule, r.delta, date)),
                  asked |-> FALSE, reverted |-> FALSE]
        ELSE IF delta < 0
        THEN LET a == addTail(placed, Len(placed), -delta, date)
                 lastDate == IF Len(a.schedule) > 0
                             THEN a.schedule[Len(a.schedule)].date ELSE date
             IN  IF a.need > 0 /\ allow
                 THEN [schedule |->
                           sortByDate(Append(a.schedule,
                               Day(nextWorkingDayAfter(lastDate, cal), a.need))),
                       asked |-> TRUE, reverted |-> FALSE]
                 ELSE [schedule |-> sortByDate(a.schedule),
                       asked |-> a.need > 0, reverted |-> a.need > 0]
        ELSE [schedule |-> sortByDate(placed),
              asked |-> FALSE, reverted |-> FALSE]

\* The schedule handed to onScheduleUpdate, whether window.confirm was
\* called (asked) and whether the edit was reverted; allow is the answer
\* window.confirm gives when it is called.
balance(schedule, date, newQuantity, targetTotal, cal, allow) ==
    LET sorted == sortByDate(schedule)
        currentIndex == findIndex(sorted, date)
        currentCellQuantity ==
            IF currentIndex > 0 THEN sorted[currentIndex].quantity ELSE 0
        placed == placeEdit(sorted, date, newQuantity)
        delta == SumQuantity(placed) - targetTotal
    IN  IF delta > 0
        THEN LET r == reduceTail(placed, Len(placed), delta, date)
             IN  [schedule |-> sortByDate(reduceEdited(r.schedule, r.delta, date)),
                  asked |-> FALSE, reverted |-> FALSE]
        ELSE IF delta < 0
        THEN LET a == addTail(placed, Len(placed), -delta, date)
             IN  IF a.need > 0
                 THEN LET lastDate ==
                              IF Len(a.schedule) > 0
                              THEN a.schedule[Len(a.schedule)].date ELSE date
                      IN  IF allow
                          THEN [schedule |->
                                    sortByDate(Append(a.schedule,
                                        Day(nextWorkingDayAfter(lastDate, cal),
                                            a.need))),
                                asked |-> TRUE, reverted |-> FALSE]
                          ELSE [schedule |->
                                    sortByDate(
                                        IF currentIndex > 0
                                        THEN [a.schedule EXCEPT ![currentIndex] =
                                                 Day(date, currentCellQuantity)]
                                        ELSE SelectSeq(a.schedule,
                                                 LAMBDA d : d.date # date)),
                                asked |-> TRUE, reverted |-> TRUE]
                 ELSE [schedule |-> sortByDate(a.schedule),
                       asked |-> FALSE, reverted |-> FALSE]
        ELSE [schedule |-> sortByDate(placed),
              asked |-> FALSE, reverted |-> FALSE]

\* a variant of the primary branch that keeps the entry of a day saved as 0
simpleUpdateKeepingZero(schedule, date, newQuantity) ==
    LET existingIndex == findIndex(schedule, date)
    IN  IF existingIndex > 0
        THEN [schedule EXCEPT ![existingIndex].quantity = newQuantity]
        ELSE IF newQuantity > 0
        THEN sortByDate(Append(schedule, Day(date, newQuantity)))
        ELSE schedule

\* the primary branch of handleCellSave: a plain update of one entry
simpleUpdate(schedule, date, newQuantity) ==
    LET existingIndex == findIndex(schedule, date)
    IN  IF existingIndex > 0
        THEN IF newQuantity = 0 THEN splice(schedule, existingIndex)
             ELSE [schedule EXCEPT ![existingIndex].quantity = newQuantity]
        ELSE IF newQuantity > 0
        THEN sortByDate(Append(schedule, Day(date, newQuantity)))
        ELSE schedule

-----------------------------------------------------------------------------
(* Inputs the user operations draw from *)

\* <<startDate, durationDays, totalQuantity>> the timeline can emit
TimelineInputs ==
    { <<<<2024, 2, 15>>, 3, 7>>, <<<<2024, 2, 16>>, 1, 1800>>,
      <<<<2024, 2, 17>>, 1, 1800>>, <<<<2024, 2, 16>>, 4, 0>> }
HolidayDates == {<<2024, 2, 14>>}
OffsetInputs == {1}
ClickDates == {<<2024, 2, 14>>, <<2024, 2, 20>>}
TypedTexts == {NumberText(-5), NumberText(0), NumberText(2000), EmptyText}

\* the pure-function specification's variables while it is idle
NoInput == [fn |-> "none"]
NoResult == [done |-> FALSE, value |-> <<>>, threw |-> FALSE]

\* dragState while no drag is under way
NoDrag == [mode |-> "none", startIndex |-> 0, duration |-> 0]

NoOp == [name |-> "mount", processId |-> "", asked |-> FALSE, reverted |-> FALSE]

Op(name, processId) ==
    [name |-> name, processId |-> processId, asked |-> FALSE, reverted |-> FALSE]

-----------------------------------------------------------------------------
(* Initial state: the useState initial values, with the mount effect due *)

Init ==
    /\ tzBehind \in BOOLEAN
    /\ viewLevel = "strip"
    /\ calendar = [weekendsOff |-> TRUE, holidays |-> {}]
    /\ sewingSchedule = InitialSewingSchedule
    /\ sewingStartDate = <<2024, 2, 15>>
    /\ sewingDurationDays = 4
    /\ sewingTotalQuantity = SumQuantity(InitialSewingSchedule)
    /\ processData = InitialProcessData
    /\ editingCell = NoCell
    /\ editValue = EmptyText
    /\ effectPending = TRUE
    /\ windowStartDate = addDays(sewingStartDate, -30)
    /\ dragState = NoDrag
    /\ lastOp = NoOp
    /\ nOps = 0
    /\ pureIn = NoInput
    /\ pureOut = NoResult

\* A handler runs once the effects of the previous render have run
CanHandle == ~effectPending /\ nOps < MaxOps

Handled(op) == lastOp' = op /\ nOps' = nOps + 1

-----------------------------------------------------------------------------
(* ProcessesGrid *)

\* a variant that recomputes frozen processes too
updateSchedulesIgnoringFreeze(prevData) ==
    [id \in ProcIds |->
        IF prevData[id].isPrimary
        THEN [prevData[id] EXCEPT !.schedule = sewingSchedule]
        ELSE IF ~prevData[id].isManualOverride
        THEN [prevData[id] EXCEPT !.schedule =
                 calculateScheduleFromOffsetWorkingDays(
                     sewingSchedule, prevData[id].offsetDays, calendar)]
        ELSE prevData[id]]

\* a variant that derives the dependents from the registry's previous
\* primary schedule instead of the new sewingSchedule
updateSchedulesFromRegistry(prevData) ==
    [id \in ProcIds |->
        IF prevData[id].isPrimary
        THEN [prevData[id] EXCEPT !.schedule = sewingSchedule]
        ELSE IF ~prevData[id].isManualOverride /\ ~prevData[id].isFrozen
        THEN [prevData[id] EXCEPT !.schedule =
                 calculateScheduleFromOffsetWorkingDays(
                     prevData[CHOOSE p \in ProcIds : prevData[p].isPrimary]
                         .schedule,
                     prevData[id].offsetDays, calendar)]
        ELSE prevData[id]]

\* useEffect(..., [sewingSchedule, calendar])
updateSchedules(prevData) ==
    [id \in ProcIds |->
        IF prevData[id].isPrimary
        THEN [prevData[id] EXCEPT !.schedule = sewingSchedule]
        ELSE IF ~prevData[id].isManualOverride /\ ~prevData[id].isFrozen
        THEN [prevData[id] EXCEPT !.schedule =
                 calculateScheduleFromOffsetWorkingDays(
                     sewingSchedule, prevData[id].offsetDays, calendar)]
        ELSE prevData[id]]

Effect ==
    /\ effectPending
    /\ processData' = updateSchedules(processData)
    /\ effectPending' = FALSE
    /\ UNCHANGED <<tzBehind, windowStartDate, dragState, viewLevel, calendar, sewingSchedule,
                   sewingStartDate, sewingDurationDays, sewingTotalQuantity,
                   editingCell, editValue, lastOp, nOps, pureIn, pureOut>>

handleSewingTimelineChange(startDate, durationDays, totalQty) ==
    /\ CanHandle
    /\ sewingStartDate' = startDate
    /\ sewingDurationDays' = durationDays
    /\ sewingTotalQuantity' = totalQty
    /\ sewingSchedule' =
           recalcSewingSchedule(startDate, durationDays, totalQty, calendar)
    /\ effectPending' = TRUE
    /\ Handled(Op("handleSewingTimelineChange", ""))
    /\ UNCHANGED <<tzBehind, windowStartDate, dragState, viewLevel, calendar, processData, editingCell,
                   editValue, pureIn, pureOut>>

\* a new calendar object makes the effect due
setCalendar(next, name) ==
    /\ CanHandle
    /\ calendar' = next
    /\ effectPending' = TRUE
    /\ Handled(Op(name, ""))
    /\ UNCHANGED <<tzBehind, windowStartDate, dragState, viewLevel, sewingSchedule, sewingStartDate,
                   sewingDurationDays, sewingTotalQuantity, processData,
                   editingCell, editValue, pureIn, pureOut>>

setWeekendsOff ==
    setCalendar([calendar EXCEPT !.weekendsOff = ~calendar.weekendsOff],
                "setWeekendsOff")

\* a holiday the calendar already holds leaves the calendar object as it is
addHoliday(newHoliday) ==
    IF newHoliday \in calendar.holidays
    THEN /\ CanHandle
         /\ Handled(Op("addHoliday", ""))
         /\ UNCHANGED <<tzBehind, windowStartDate, dragState, viewLevel, calendar, sewingSchedule,
                        sewingStartDate, sewingDurationDays,
                        sewingTotalQuantity, processData, editingCell,
                        editValue, effectPending, pureIn, pureOut>>
    ELSE setCalendar([calendar EXCEPT !.holidays = @ \cup {newHoliday}],
                     "addHoliday")

removeHoliday(h) ==
    /\ h \in calendar.holidays
    /\ setCalendar([calendar EXCEPT !.holidays = @ \ {h}], "removeHoliday")

\* a handler that changes the registry only
setProcessData(next, op) ==
    /\ CanHandle
    /\ processData' = next
    /\ Handled(op)
    /\ UNCHANGED <<tzBehind, windowStartDate, dragState, viewLevel, calendar, sewingSchedule,
                   sewingStartDate, sewingDurationDays, sewingTotalQuantity,
                   editingCell, editValue, effectPending, pureIn, pureOut>>

\* a variant of the reset that clears the flag and keeps the schedule
resetFlagOnly(processId) ==
    /\ currentViewConfig.isEditable
    /\ ~processData[processId].isPrimary
    /\ setProcessData(
           [processData EXCEPT ![processId].isManualOverride = FALSE],
           Op("resetToAutoSchedule", processId))

\* the reset button of a non-primary row, shown at the editable level
resetToAutoSchedule(processId) ==
    /\ currentViewConfig.isEditable
    /\ ~processData[processId].isPrimary
    /\ setProcessData(
           [processData EXCEPT
               ![processId].schedule =
                   calculateScheduleFromOffsetWorkingDays(
                       sewingSchedule, processData[processId].offsetDays,
                       calendar),
               ![processId].isManualOverride = FALSE],
           Op("resetToAutoSchedule", processId))

\* the offset input of a non-primary row, shown at the editable level
handleOffsetChange(processId, newOffset) ==
    /\ currentViewConfig.isEditable
    /\ ~processData[processId].isPrimary
    /\ setProcessData(
           [processData EXCEPT
               ![processId].offsetDays = newOffset,
               ![processId].isManualOverride = FALSE,
               ![processId].schedule =
                   calculateScheduleFromOffsetWorkingDays(
                       sewingSchedule, newOffset, calendar)],
           Op("handleOffsetChange", processId))

\* the view level selector
setViewLevel(level) ==
    /\ CanHandle
    /\ level # viewLevel
    /\ viewLevel' = level
    /\ Handled(Op("setViewLevel", ""))
    /\ UNCHANGED <<tzBehind, windowStartDate, dragState, calendar, sewingSchedule, sewingStartDate,
                   sewingDurationDays, sewingTotalQuantity, processData,
                   editingCell, editValue, effectPending, pureIn, pureOut>>

-----------------------------------------------------------------------------
(* ScheduleGrid *)

\* the freeze button of a non-primary row, shown at the editable level
toggleFreeze(processId) ==
    /\ currentViewConfig.isEditable
    /\ ~processData[processId].isPrimary
    /\ setProcessData(
           [processData EXCEPT ![processId].isFrozen = ~@],
           Op("toggleFreeze", processId))

\* a handler that changes the cell editor only
setEditing(cell, text, op) ==
    /\ CanHandle
    /\ editingCell' = cell
    /\ editValue' = text
    /\ Handled(op)
    /\ UNCHANGED <<tzBehind, windowStartDate, dragState, viewLevel, calendar, sewingSchedule,
                   sewingStartDate, sewingDurationDays, sewingTotalQuantity,
                   processData, effectPending, pureIn, pureOut>>

\* whether the row's cells pass their click on to handleCellClick, which
\* tests the same three conditions again
isEditable(process, config) ==
    ~process.isPrimary /\ ~process.isFrozen /\ config.isEditable

\* the cell in edit mode after a click on cell while editing is in edit mode
clickedCell(process, config, editing, cell) ==
    IF isEditable(process, config) /\ cell # editing
    THEN IF process.isPrimary \/ process.isFrozen \/ ~config.isEditable
         THEN editing
         ELSE cell
    ELSE editing

\* a variant in which the click on another cell stores the text of the cell
\* in edit mode before moving the editor
handleCellClickStoring(processId, date) ==
    LET process == processData[processId]
        cell == [processId |-> processId, date |-> date]
        index == findIndex(process.schedule, date)
        baseQuantity == IF index > 0 THEN process.schedule[index].quantity ELSE 0
    IN  /\ CanHandle
        /\ cell # editingCell
        /\ ~(process.isPrimary \/ process.isFrozen
             \/ ~currentViewConfig.isEditable)
        /\ editingCell' = cell
        /\ editValue' = NumberText(baseQuantity)
        /\ processData' =
               IF editingCell = NoCell THEN processData
               ELSE [processData EXCEPT
                        ![editingCell.processId].schedule =
                            sortByDate(Append(
                                SelectSeq(@, LAMBDA d : d.date # editingCell.date),
                                Day(editingCell.date, clampQuantity(editValue))))]
        /\ Handled(Op("handleCellClick", processId))
        /\ UNCHANGED <<tzBehind, windowStartDate, dragState, viewLevel, calendar, sewingSchedule,
                       sewingStartDate, sewingDurationDays,
                       sewingTotalQuantity, effectPending, pureIn, pureOut>>

handleCellClick(processId, date) ==
    LET process == processData[processId]
        cell == [processId |-> processId, date |-> date]
        index == findIndex(process.schedule, date)
        baseQuantity == IF index > 0 THEN process.schedule[index].quantity ELSE 0
    IN  /\ cell # editingCell
        /\ ~(process.isPrimary \/ process.isFrozen
             \/ ~currentViewConfig.isEditable)
        /\ setEditing(cell, NumberText(baseQuantity),
                      Op("handleCellClick", processId))

\* typing in the input of the cell in edit mode (not counted in nOps: the
\* texts are bounded by TypedTexts)
setEditValue(text) ==
    /\ ~effectPending
    /\ editingCell # NoCell
    /\ text # editValue
    /\ editValue' = text
    /\ lastOp' = Op("setEditValue", editingCell.processId)
    /\ UNCHANGED <<tzBehind, windowStartDate, dragState, viewLevel, calendar, sewingSchedule,
                   sewingStartDate, sewingDurationDays, sewingTotalQuantity,
                   processData, editingCell, effectPending, nOps, pureIn,
                   pureOut>>

handleCellCancel ==
    /\ editingCell # NoCell
    /\ setEditing(NoCell, EmptyText, Op("handleCellCancel", editingCell.processId))

\* Enter or the check button of the cell in edit mode; allow is the answer
\* window.confirm gives if it is called
handleCellSave(allow) ==
    /\ CanHandle
    /\ editingCell # NoCell
    /\ LET processId == editingCell.processId
           date == editingCell.date
           process == processData[processId]
           newQuantity == clampQuantity(editValue)
           r == IF ~process.isPrimary
                THEN balance(process.schedule, date, newQuantity,
                             primaryTotal, calendar, allow)
                ELSE [schedule |->
                          simpleUpdate(process.schedule, date, newQuantity),
                      asked |-> FALSE, reverted |-> FALSE]
       IN  /\ r.asked \/ allow
           /\ processData' =
                  [processData EXCEPT ![processId].schedule = r.schedule,
                                      ![processId].isManualOverride = TRUE]
           /\ Handled([name |-> "handleCellSave", processId |-> processId,
                       asked |-> r.asked, reverted |-> r.reverted])
    /\ editingCell' = NoCell
    /\ editValue' = EmptyText
    /\ UNCHANGED <<tzBehind, windowStartDate, dragState, viewLevel, calendar, sewingSchedule,
                   sewingStartDate, sewingDurationDays, sewingTotalQuantity,
                   effectPending, pureIn, pureOut>>

-----------------------------------------------------------------------------
(* The application *)

Next ==
    \/ Effect
    \/ \E t \in TimelineInputs : handleSewingTimelineChange(t[1], t[2], t[3])
    \/ setWeekendsOff
    \/ \E h \in HolidayDates : addHoliday(h)
    \/ \E h \in HolidayDates : removeHoliday(h)
    \/ \E id \in ProcIds : resetToAutoSchedule(id)
    \/ \E id \in ProcIds, newOffset \in OffsetInputs :
           handleOffsetChange(id, newOffset)
    \/ \E level \in ViewLevels : setViewLevel(level)
    \/ \E id \in ProcIds : toggleFreeze(id)
    \/ \E id \in ProcIds, date \in ClickDates : handleCellClick(id, date)
    \/ \E text \in TypedTexts : setEditValue(text)
    \/ handleCellCancel
    \/ \E allow \in BOOLEAN : handleCellSave(allow)

Spec == Init /\ [][Next]_vars

-----------------------------------------------------------------------------
(* The pure functions, applied to inputs drawn from bounded sets *)

ScenarioASchedule == InitialSewingSchedule

\* well-formed schedules: unique ascending dates, positive quantities
PureSchedules ==
    { ScenarioASchedule,
      <<>>,
      << Day(<<2024, 2, 16>>, 5) >>,
      << Day(<<2024, 2, 14>>, 5), Day(<<2024, 2, 15>>, 6) >>,
      << Day(<<2024, 2, 29>>, 3), Day(<<2024, 3, 1>>, 4), Day(<<2024, 3, 2>>, 2) >> }

\* the orderings of the entries of s
PermutationsOf(s) ==
    IF s = <<>> THEN {<<>>}
    ELSE { [i \in 1..Len(s) |-> s[f[i]]] : f \in Permutations(1..Len(s)) }

ShuffledSchedules == UNION { PermutationsOf(s) : s \in PureSchedules }

PureOffsets == -3..3

PureCalendars ==
    [weekendsOff : BOOLEAN, holidays : SUBSET {<<2024, 2, 14>>, <<2024, 3, 4>>}]

PureDates ==
    { <<2024, 2, 14>>, <<2024, 2, 15>>, <<2024, 2, 17>>, <<2024, 2, 18>>,
      <<2024, 3, 1>> }

PureStarts ==
    { <<2024, 2, 15>>, <<2024, 2, 17>>, <<2024, 2, 19>>, <<2024, 3, 1>> }

PureDurations == {0, 1, 2, 5}

PureTotals == {-5, 0, 1, 7, 17}

PureTexts == TypedTexts \cup {NumberText(50), NumberText(7), NumberText(1300)}

\* schedules of a dependent process and primary totals a save can meet; the
\* last schedule is what a save of 0 on 02-20 leaves of the one before it
BalanceSchedules ==
    { <<>>,
      << Day(<<2024, 2, 20>>, 1800) >>,
      << Day(<<2024, 2, 20>>, 150) >>,
      << Day(<<2024, 2, 19>>, 500), Day(<<2024, 2, 20>>, 1300) >>,
      << Day(<<2024, 2, 19>>, 1800), Day(<<2024, 2, 20>>, 0) >> }

BalanceTargets == {0, 150, 1800, 2000}

\* the dates of the cells saved: those clicked in the application and a Friday
BalanceDates == ClickDates \cup {<<2024, 2, 16>>}

\* a schedule of two days of 100 each, the targets it meets and the cells saved
ScenarioCSchedule ==
    << Day(<<2024, 4, 1>>, 100), Day(<<2024, 4, 2>>, 100) >>

ScenarioCInputs ==
    [fn : {"cellSave"}, schedule : {ScenarioCSchedule},
     date : {<<2024, 4, 1>>, <<2024, 4, 3>>}, text : PureTexts,
     targetTotal : {150, 250}, calendar : PureCalendars, allow : BOOLEAN]

DeriveInputs ==
    [fn : {"deriveDependentSchedule"}, schedule : ShuffledSchedules,
     offset : PureOffsets, calendar : PureCalendars]

AddWorkingDaysInputs ==
    [fn : {"addWorkingDays"}, date : PureDates, n : PureOffsets,
     calendar : PureCalendars]

DistributeInputs ==
    [fn : {"distributeQuantity"}, startDate : PureStarts,
     durationDays : PureDurations, totalQty : PureTotals,
     calendar : PureCalendars]

TotalInputInputs ==
    [fn : {"totalInput"}, startDate : PureStarts,
     durationDays : PureDurations \ {0}, text : PureTexts,
     calendar : PureCalendars]

CellSaveInputs ==
    [fn : {"cellSave"}, schedule : BalanceSchedules, date : BalanceDates,
     text : PureTexts, targetTotal : BalanceTargets,
     calendar : PureCalendars, allow : BOOLEAN]

\* stored schedules and the dates of the cells shown for them
ProjectSchedules ==
    { <<>>,
      << Day(<<2024, 3, 1>>, 1), Day(<<2024, 3, 2>>, 3) >>,
      << Day(<<2024, 3, 1>>, 2), Day(<<2024, 3, 2>>, 500) >>,
      ScenarioASchedule }

ProjectDates == { <<2024, 3, 1>>, <<2024, 3, 2>>, <<2024, 3, 3>>, <<2024, 2, 18>> }

ProjectInputs ==
    [fn : {"projectForView"}, schedule : ProjectSchedules, level : ViewLevels]

\* saves on cells of a primary schedule
PrimarySaveInputs ==
    [fn : {"primarySave"}, schedule : PureSchedules, date : PureDates,
     text : PureTexts]

\* clicks on a cell of a row, no cell being in edit mode
CellClickInputs ==
    [fn : {"cellClick"}, isPrimary : BOOLEAN, isFrozen : BOOLEAN,
     level : ViewLevels, processId : ProcIds, date : ClickDates]

\* dates and calendars the two sets of calendar functions are asked about
CalendarDates == PureDates \cup {<<2024, 2, 19>>, <<2024, 3, 4>>}

CalendarInputs ==
    [fn : {"calendar"}, date : CalendarDates, calendar : PureCalendars]

InitPure ==
    /\ tzBehind \in BOOLEAN
    /\ viewLevel = "strip"
    /\ calendar = [weekendsOff |-> TRUE, holidays |-> {}]
    /\ sewingSchedule = InitialSewingSchedule
    /\ sewingStartDate = <<2024, 2, 15>>
    /\ sewingDurationDays = 4
    /\ sewingTotalQuantity = SumQuantity(InitialSewingSchedule)
    /\ processData = InitialProcessData
    /\ editingCell = NoCell
    /\ editValue = EmptyText
    /\ effectPending = TRUE
    /\ windowStartDate = addDays(sewingStartDate, -30)
    /\ dragState = NoDrag
    /\ lastOp = NoOp
    /\ nOps = 0
    /\ pureIn \in DeriveInputs \cup AddWorkingDaysInputs \cup DistributeInputs
                      \cup TotalInputInputs \cup CellSaveInputs
                      \cup ProjectInputs \cup ScenarioCInputs
                      \cup PrimarySaveInputs \cup CellClickInputs
                      \cup CalendarInputs
    /\ pureOut = NoResult

UnchangedApp ==
    UNCHANGED <<tzBehind, windowStartDate, dragState, viewLevel, calendar, sewingSchedule, sewingStartDate,
                sewingDurationDays, sewingTotalQuantity, processData,
                editingCell, editValue, effectPending, lastOp, nOps>>

\* the call returned value; none of the functions has a throw statement
Returned(value) ==
    /\ ~pureOut.done
    /\ pureOut' = [done |-> TRUE, value |-> value, threw |-> FALSE]
    /\ UNCHANGED pureIn
    /\ UnchangedApp

applyDerive ==
    /\ pureIn.fn = "deriveDependentSchedule"
    /\ Returned(calculateScheduleFromOffsetWorkingDays(
                    pureIn.schedule, pureIn.offset, pureIn.calendar))

applyAddWorkingDays ==
    /\ pureIn.fn = "addWorkingDays"
    /\ Returned(addWorkingDaysFromISO(pureIn.date, pureIn.n, pureIn.calendar))

\* recalcSewingSchedule called directly; value is the schedule it sets
applyDistribute ==
    /\ pureIn.fn = "distributeQuantity"
    /\ Returned(recalcSewingSchedule(pureIn.startDate, pureIn.durationDays,
                                     pureIn.totalQty, pureIn.calendar))

\* the total-quantity input of the timeline: its onChange clamps the duration
\* and the typed total, then handleSewingTimelineChange recomputes
applyTotalInput ==
    /\ pureIn.fn = "totalInput"
    /\ Returned(recalcSewingSchedule(pureIn.startDate,
                                     Max(1, pureIn.durationDays),
                                     clampQuantity(pureIn.text),
                                     pureIn.calendar))

\* the balancer as handleCellSave runs it on a dependent process
applyCellSave ==
    /\ pureIn.fn = "cellSave"
    /\ Returned(balance(pureIn.schedule, pureIn.date,
                        clampQuantity(pureIn.text), pureIn.targetTotal,
                        pureIn.calendar, pureIn.allow))

\* the cells of a row rendered at a view level: what each cell shows, and
\* the schedule the registry holds afterwards (rendering assigns nothing)
applyProject ==
    /\ pureIn.fn = "projectForView"
    /\ Returned([shown |-> [date \in ProjectDates |->
                               getQuantityForDate(pureIn.schedule, date,
                                   VIEW_LEVEL_CONFIGS[pureIn.level])],
                 stored |-> pureIn.schedule])

\* handleCellSave's branch for a primary process; value is the schedule
\* handed to onScheduleUpdate
applyPrimarySave ==
    /\ pureIn.fn = "primarySave"
    /\ Returned(simpleUpdate(pureIn.schedule, pureIn.date,
                             clampQuantity(pureIn.text)))

\* a click on a cell of the grid; value is the cell in edit mode afterwards
applyCellClick ==
    /\ pureIn.fn = "cellClick"
    /\ Returned(clickedCell(
                    [isPrimary |-> pureIn.isPrimary, isFrozen |-> pureIn.isFrozen],
                    VIEW_LEVEL_CONFIGS[pureIn.level], NoCell,
                    [processId |-> pureIn.processId, date |-> pureIn.date]))

\* the calendar functions of the grid and of the registry on one date
applyCalendar ==
    /\ pureIn.fn = "calendar"
    /\ Returned([grid |-> isNonWorkingISO(pureIn.date, pureIn.calendar),
                 registry |-> isNonWorking(NewDate(pureIn.date),
                                           pureIn.calendar),
                 next |-> nextWorkingDayAfter(pureIn.date, pureIn.calendar),
                 plusOne |-> addWorkingDaysFromISO(pureIn.date, 1,
                                                   pureIn.calendar)])

NextPure ==
    \/ applyCalendar
    \/ applyPrimarySave
    \/ applyCellClick
    \/ applyProject
    \/ applyDerive
    \/ applyAddWorkingDays
    \/ applyDistribute
    \/ applyTotalInput
    \/ applyCellSave

SpecPure == InitPure /\ [][NextPure]_vars

-----------------------------------------------------------------------------
(* SewingTimeline: the strip of the primary process on a day axis.  Its     *)
(* props are sewingStartDate, sewingDurationDays and sewingTotalQuantity,   *)
(* its onChange is handleSewingTimelineChange.  A change is the triple      *)
(* <<startDate, durationDays, totalQuantity>> handed to onChange.           *)

\* the number of day cells of the axis
numCells == 180

clamp(val, min, max) == Max(min, Min(max, val))

\* dates[i], the date of cell i of the axis
dates(i) == addDays(windowStartDate, i)

\* the cell of the start date: the whole days between the window's start and
\* the start date, kept inside the axis
startIndex ==
    Max(0, Min(numCells - 1,
               NewDate(sewingStartDate) - NewDate(windowStartDate)))

\* the conditions under which the window effect moves the window
stripEndDate == addDays(sewingStartDate, Max(0, sewingDurationDays - 1))

shiftLeftDue == NewDate(sewingStartDate) < NewDate(windowStartDate)

shiftRightDue ==
    NewDate(stripEndDate) > NewDate(addDays(windowStartDate, numCells - 1))

\* useEffect(..., [startDate, durationDays, windowStartDate]): of the two
\* setWindowStartDate calls of one run the later one decides
expandWindow ==
    /\ shiftLeftDue \/ shiftRightDue
    /\ windowStartDate' =
           IF shiftRightDue THEN addDays(stripEndDate, 30 - numCells)
           ELSE addDays(sewingStartDate, -30)
    /\ UNCHANGED <<tzBehind, dragState, viewLevel, calendar, sewingSchedule,
                   sewingStartDate, sewingDurationDays, sewingTotalQuantity,
                   processData, editingCell, editValue, effectPending, lastOp,
                   nOps, pureIn, pureOut>>

\* an event of the timeline is handled once the effects of the last render
\* have run
TimelineReady == ~shiftLeftDue /\ ~shiftRightDue

\* the change onMouseMove emits for a pointer deltaCells cells from where
\* the drag began
dragChange(deltaCells) ==
    IF dragState.mode = "move"
    THEN LET newStartIndex ==
                 clamp(dragState.startIndex + deltaCells, 0,
                       numCells - dragState.duration)
         IN  <<dates(newStartIndex), dragState.duration, sewingTotalQuantity>>
    ELSE IF dragState.mode = "resize-right"
    THEN LET newDuration ==
                 clamp(dragState.duration + deltaCells, 1,
                       numCells - dragState.startIndex)
         IN  <<sewingStartDate, newDuration, sewingTotalQuantity>>
    ELSE LET newStartIndex ==
                 clamp(dragState.startIndex + deltaCells, 0,
                       dragState.startIndex + dragState.duration - 1)
             newDuration ==
                 dragState.duration + (dragState.startIndex - newStartIndex)
         IN  <<dates(newStartIndex), newDuration, sewingTotalQuantity>>

\* the change handleKeyDown emits for an arrow key
keyChange(key, shiftKey) ==
    IF key = "ArrowLeft"
    THEN IF shiftKey
         THEN LET newStartIndex ==
                      clamp(startIndex - 1, 0,
                            startIndex + sewingDurationDays - 1)
              IN  <<dates(newStartIndex),
                    sewingDurationDays + (startIndex - newStartIndex),
                    sewingTotalQuantity>>
         ELSE <<dates(clamp(startIndex - 1, 0, numCells - sewingDurationDays)),
                sewingDurationDays, sewingTotalQuantity>>
    ELSE IF shiftKey
         THEN <<sewingStartDate,
                clamp(sewingDurationDays + 1, 1, numCells - startIndex),
                sewingTotalQuantity>>
         ELSE <<dates(clamp(startIndex + 1, 0, numCells - sewingDurationDays)),
                sewingDurationDays, sewingTotalQuantity>>

\* the changes the three inputs emit; parseInt(text) || 1 for the duration
startDateChange(value) ==
    <<value, Max(1, sewingDurationDays), sewingTotalQuantity>>

durationChange(text) ==
    <<sewingStartDate,
      Max(1, IF parseIntOrZero(text) # 0 THEN parseIntOrZero(text) ELSE 1),
      sewingTotalQuantity>>

totalChange(text) ==
    <<sewingStartDate, Max(1, sewingDurationDays), clampQuantity(text)>>

\* onChange(...) called by an event of the timeline
emit(change) ==
    /\ TimelineReady
    /\ handleSewingTimelineChange(change[1], change[2], change[3])

beginDrag(mode) ==
    /\ TimelineReady
    /\ ~effectPending
    /\ dragState = NoDrag
    /\ dragState' = [mode |-> mode, startIndex |-> startIndex,
                     duration |-> sewingDurationDays]
    /\ UNCHANGED <<tzBehind, windowStartDate, viewLevel, calendar,
                   sewingSchedule, sewingStartDate, sewingDurationDays,
                   sewingTotalQuantity, processData, editingCell, editValue,
                   effectPending, lastOp, nOps, pureIn, pureOut>>

onMouseMove(deltaCells) ==
    /\ dragState # NoDrag
    /\ emit(dragChange(deltaCells))

endDrag ==
    /\ TimelineReady
    /\ ~effectPending
    /\ dragState # NoDrag
    /\ dragState' = NoDrag
    /\ UNCHANGED <<tzBehind, windowStartDate, viewLevel, calendar,
                   sewingSchedule, sewingStartDate, sewingDurationDays,
                   sewingTotalQuantity, processData, editingCell, editValue,
                   effectPending, lastOp, nOps, pureIn, pureOut>>

handleKeyDown(key, shiftKey) == emit(keyChange(key, shiftKey))

onStartDateInput(value) == emit(startDateChange(value))

onDurationInput(text) == emit(durationChange(text))

onTotalInput(text) == emit(totalChange(text))

\* pointer positions, keys and input values of the timeline's events
DeltaCells == {-3, -1, 3}
DragModes == {"move", "resize-left", "resize-right"}
ArrowKeys == {"ArrowLeft", "ArrowRight"}
StartDateValues == {<<2024, 1, 10>>, <<2024, 1, 17>>, <<2024, 7, 12>>}
DurationTexts == {NumberText(0), NumberText(-5), NumberText(2), EmptyText}
TotalTexts == {NumberText(-5), NumberText(7)}

NextTimeline ==
    \/ Effect
    \/ expandWindow
    \/ \E mode \in DragModes : beginDrag(mode)
    \/ \E deltaCells \in DeltaCells : onMouseMove(deltaCells)
    \/ endDrag
    \/ \E key \in ArrowKeys, shiftKey \in BOOLEAN : handleKeyDown(key, shiftKey)
    \/ \E value \in StartDateValues : onStartDateInput(value)
    \/ \E text \in DurationTexts : onDurationInput(text)
    \/ \E text \in TotalTexts : onTotalInput(text)

SpecTimeline == Init /\ [][NextTimeline]_vars

-----------------------------------------------------------------------------
(* The two working-day loops, one iteration a step *)

\* the dates of the modelled window
AllDates == {toISO(n) : n \in DayNumbers}

\* holidays covering the window from the day after iso, or up to the day
\* before it: the window's edge stands for a range without bound
HolidaysAfter(iso) == {toISO(n) : n \in {m \in DayNumbers : m > NewDate(iso)}}
HolidaysBefore(iso) == {toISO(n) : n \in {m \in DayNumbers : m < NewDate(iso)}}

UnboundedCalendars ==
    [weekendsOff : {FALSE},
     holidays : {AllDates, HolidaysAfter(<<2024, 2, 20>>),
                 HolidaysBefore(<<2024, 2, 13>>)}]

LoopInputs ==
    [fn : {"addWorkingDaysLoop"}, date : PureDates, n : PureOffsets,
     calendar : PureCalendars]
        \cup [fn : {"nextWorkingDayLoop"}, date : PureDates, n : {1},
              calendar : PureCalendars]
        \cup [fn : {"addWorkingDaysLoop"},
              date : {<<2024, 2, 14>>, <<2024, 2, 17>>}, n : {-2, 1, 3},
              calendar : UnboundedCalendars]
        \cup [fn : {"nextWorkingDayLoop"},
              date : {<<2024, 2, 14>>, <<2024, 2, 17>>}, n : {1},
              calendar : UnboundedCalendars]

\* a call's position (at its entry or at the loop test), its date variable
\* and its counter
LoopState(pos, date, remaining) ==
    [done |-> FALSE, threw |-> FALSE,
     value |-> [pos |-> pos, date |-> date, remaining |-> remaining]]

InitLoops ==
    /\ tzBehind \in BOOLEAN
    /\ viewLevel = "strip"
    /\ calendar = [weekendsOff |-> TRUE, holidays |-> {}]
    /\ sewingSchedule = InitialSewingSchedule
    /\ sewingStartDate = <<2024, 2, 15>>
    /\ sewingDurationDays = 4
    /\ sewingTotalQuantity = SumQuantity(InitialSewingSchedule)
    /\ processData = InitialProcessData
    /\ editingCell = NoCell
    /\ editValue = EmptyText
    /\ effectPending = TRUE
    /\ windowStartDate = addDays(sewingStartDate, -30)
    /\ dragState = NoDrag
    /\ lastOp = NoOp
    /\ nOps = 0
    /\ pureIn \in LoopInputs
    /\ pureOut = LoopState("entry", NewDate(pureIn.date), 0)

LoopStep(next) ==
    /\ ~pureOut.done
    /\ pureOut' = next
    /\ UNCHANGED pureIn
    /\ UnchangedApp

LoopDirection == IF pureIn.n > 0 THEN 1 ELSE -1

\* addWorkingDaysFromISO up to its loop: the early return for offset 0
enterAddWorkingDays ==
    /\ pureIn.fn = "addWorkingDaysLoop"
    /\ pureOut.value.pos = "entry"
    /\ LoopStep(IF pureIn.n = 0
                THEN [pureOut EXCEPT !.done = TRUE]
                ELSE LoopState("loop", pureOut.value.date, Abs(pureIn.n)))

\* one iteration of its while loop
iterateAddWorkingDays ==
    /\ pureIn.fn = "addWorkingDaysLoop"
    /\ pureOut.value.pos = "loop"
    /\ pureOut.value.remaining > 0
    /\ pureOut.value.date + LoopDirection \in DayNumbers
    /\ LET date == pureOut.value.date + LoopDirection
       IN  LoopStep(LoopState("loop", date,
                              IF ~isNonWorking(date, pureIn.calendar)
                              THEN pureOut.value.remaining - 1
                              ELSE pureOut.value.remaining))

\* a variant of the return that waits for the counter to fall below 0
returnBelowZero ==
    /\ pureIn.fn = "addWorkingDaysLoop"
    /\ pureOut.value.pos = "loop"
    /\ pureOut.value.remaining < 0
    /\ LoopStep([pureOut EXCEPT !.done = TRUE])

\* the loop test failing and the return
returnAddWorkingDays ==
    /\ pureIn.fn = "addWorkingDaysLoop"
    /\ pureOut.value.pos = "loop"
    /\ pureOut.value.remaining <= 0
    /\ LoopStep([pureOut EXCEPT !.done = TRUE])

\* nextWorkingDayAfter up to its loop
enterNextWorkingDay ==
    /\ pureIn.fn = "nextWorkingDayLoop"
    /\ pureOut.value.pos = "entry"
    /\ pureOut.value.date + 1 \in DayNumbers
    /\ LoopStep(LoopState("loop", pureOut.value.date + 1, 0))

\* one iteration of its while loop
iterateNextWorkingDay ==
    /\ pureIn.fn = "nextWorkingDayLoop"
    /\ pureOut.value.pos = "loop"
    /\ isNonWorkingISO(toISO(pureOut.value.date), pureIn.calendar)
    /\ pureOut.value.date + 1 \in DayNumbers
    /\ LoopStep(LoopState("loop", pureOut.value.date + 1, 0))

\* the loop test failing and the return
returnNextWorkingDay ==
    /\ pureIn.fn = "nextWorkingDayLoop"
    /\ pureOut.value.pos = "loop"
    /\ ~isNonWorkingISO(toISO(pureOut.value.date), pureIn.calendar)
    /\ LoopStep([pureOut EXCEPT !.done = TRUE])

NextLoops ==
    \/ enterAddWorkingDays
    \/ iterateAddWorkingDays
    \/ returnAddWorkingDays
    \/ enterNextWorkingDay
    \/ iterateNextWorkingDay
    \/ returnNextWorkingDay

\* a call that has started runs on: the functions are synchronous
SpecLoops == InitLoops /\ [][NextLoops]_vars /\ WF_vars(NextLoops)

-----------------------------------------------------------------------------
(* Properties *)

Derived(id) ==
    calculateScheduleFromOffsetWorkingDays(
        processData[primaryProcess].schedule, processData[id].offsetDays,
        calendar)

Eligible(id) ==
    /\ ~processData[id].isPrimary
    /\ ~processData[id].isManualOverride
    /\ ~processData[id].isFrozen

Exempt(id) == processData[id].isManualOverride \/ processData[id].isFrozen

Total(id) == SumQuantity(processData[id].schedule)

\* the step just taken ran the named handler
Ran(name) == nOps' = nOps + 1 /\ lastOp'.name = name

\* the state is the one an accepted save on a dependent process left
AfterAcceptedSave ==
    /\ lastOp.name = "handleCellSave"
    /\ ~lastOp.reverted
    /\ ~processData[lastOp.processId].isPrimary

\* C1: after an accepted (non-reverted) cell save on a dependent process,
\* the process's quantities sum to the primary's base-unit total.
C1_BalancerConservation ==
    AfterAcceptedSave => Total(lastOp.processId) = Total(primaryProcess)

\* C2: once the effect has run, every process that is not primary, not
\* frozen and not manually overridden holds the schedule derived from the
\* primary schedule, its offset and the calendar.
C2_EligibleAreDerived ==
    ~effectPending =>
        \A id \in ProcIds : Eligible(id) => processData[id].schedule = Derived(id)

\* C3: no schedule of the registry holds an entry of quantity 0.
C3_NoZeroEntries ==
    \A id \in ProcIds :
        \A i \in 1..Len(processData[id].schedule) :
            processData[id].schedule[i].quantity # 0

\* C4: once the effect has run, every process's quantities sum to the
\* primary's total.
C4_TotalsConsistent ==
    ~effectPending => \A id \in ProcIds : Total(id) = Total(primaryProcess)

\* C5: a change of the primary schedule or of the calendar, and the effect
\* it triggers, leave every frozen or manually overridden process as it was
\* (schedule, offset and flags).
C5_ExemptFrame ==
    [][effectPending' # effectPending =>
           \A id \in ProcIds : Exempt(id) => processData'[id] = processData[id]]_vars

\* C5 witness: the effect has run after a timeline or calendar change and
\* has left a frozen or overridden process with a schedule other than the
\* derived one.
C5_Witness ==
    /\ ~effectPending
    /\ lastOp.name \in {"handleSewingTimelineChange", "setWeekendsOff",
                        "removeHoliday"}
    /\ \E id \in ProcIds :
           /\ ~processData[id].isPrimary
           /\ Exempt(id)
           /\ processData[id].schedule # Derived(id)

\* C6: a cell save run while a non-base view level is selected changes no
\* process's schedule or flags.
C6_NoSaveAtNonBaseLevel ==
    [][Ran("handleCellSave") /\ ~currentViewConfig.isEditable =>
           processData' = processData]_vars

\* C7: a cell save never changes the schedule of a process that is frozen.
C7_NoSaveOnFrozen ==
    [][Ran("handleCellSave") =>
           \A id \in ProcIds :
               processData[id].isFrozen =>
                   processData'[id].schedule = processData[id].schedule]_vars

\* C8: an offset change or a reset to automatic on a frozen process leaves
\* its schedule unchanged.
C8_FrozenKeepsSchedule ==
    [][Ran("handleOffsetChange") \/ Ran("resetToAutoSchedule") =>
           \A id \in ProcIds :
               processData[id].isFrozen /\ processData'[id].isFrozen =>
                   processData'[id].schedule = processData[id].schedule]_vars

ScenarioAInput ==
    /\ pureIn.fn = "deriveDependentSchedule"
    /\ pureIn.schedule = ScenarioASchedule
    /\ pureIn.offset = -3
    /\ pureIn.calendar = [weekendsOff |-> TRUE, holidays |-> {}]

\* C10 as stated: Scenario A yields (02-12,500),(02-13,500),(02-14,500),
\* (02-15,300).
C10_ScenarioA_AsStated ==
    pureOut.done /\ ScenarioAInput =>
        pureOut.value =
            << Day(<<2024, 2, 12>>, 500), Day(<<2024, 2, 13>>, 500),
               Day(<<2024, 2, 14>>, 500), Day(<<2024, 2, 15>>, 300) >>

\* C10 amended: Scenario A yields (02-12,500),(02-13,500),(02-14,800), Sat
\* 02-17 and Sun 02-18 both mapping to Wed 02-14, when the local zone is not
\* behind UTC; in a zone behind UTC, where getDay() reads the weekday of the
\* day before, it yields (02-10,500),(02-13,500),(02-14,500),(02-15,300).
C10_ScenarioA ==
    pureOut.done /\ ScenarioAInput =>
        pureOut.value =
            IF tzBehind
            THEN << Day(<<2024, 2, 10>>, 500), Day(<<2024, 2, 13>>, 500),
                    Day(<<2024, 2, 14>>, 500), Day(<<2024, 2, 15>>, 300) >>
            ELSE << Day(<<2024, 2, 12>>, 500), Day(<<2024, 2, 13>>, 500),
                    Day(<<2024, 2, 14>>, 800) >>

\* C10 witness: the function has been applied to Scenario A's input in a
\* zone not behind UTC.
C10_Witness == pureOut.done /\ ScenarioAInput /\ ~tzBehind

-----------------------------------------------------------------------------
(* Properties of the calendar functions and of the offset scheduler *)

\* the calendar's own reading of a day: Saturday or Sunday by its ISO date
IsSaturdayOrSunday(iso) ==
    LET weekday == (NewDate(iso) + 4) % 7 IN weekday = 0 \/ weekday = 6

\* a day is working iff it is no holiday and, with weekends excluded, is
\* neither Saturday nor Sunday
IsWorkingDay(iso, cal) ==
    /\ iso \notin cal.holidays
    /\ cal.weekendsOff => ~IsSaturdayOrSunday(iso)

\* the working days among the days from day number lo to day number hi
WorkingDaysBetween(lo, hi, cal) ==
    { d \in lo..hi : IsWorkingDay(toISO(d), cal) }

\* the day number of the |n|-th working day strictly after (n > 0) or
\* strictly before (n < 0) the date
NthWorkingDay(iso, n, cal) ==
    LET start == NewDate(iso)
    IN  IF n > 0
        THEN CHOOSE d \in DayNumbers :
                 /\ d > start
                 /\ IsWorkingDay(toISO(d), cal)
                 /\ Cardinality(WorkingDaysBetween(start + 1, d, cal)) = n
        ELSE CHOOSE d \in DayNumbers :
                 /\ d < start
                 /\ IsWorkingDay(toISO(d), cal)
                 /\ Cardinality(WorkingDaysBetween(d, start - 1, cal)) = -n

Applied(fn) == pureOut.done /\ pureIn.fn = fn

\* C11: addWorkingDays(date, n) returns, for n # 0, the |n|-th working day
\* strictly after (n > 0) or strictly before (n < 0) date, the start date
\* never counted, so the result is a working day; for n = 0 it returns date
\* unchanged, working or not.
C11_AddWorkingDays ==
    Applied("addWorkingDays") =>
        IF pureIn.n = 0 THEN pureOut.value = pureIn.date
        ELSE /\ pureOut.value =
                    toISO(NthWorkingDay(pureIn.date, pureIn.n, pureIn.calendar))
             /\ IsWorkingDay(pureOut.value, pureIn.calendar)

\* the same, where the local zone is not behind UTC
C11_WhereZoneNotBehind == ~tzBehind => C11_AddWorkingDays

WellFormed(s) ==
    /\ \A i \in 1..Len(s) : s[i].quantity > 0
    /\ \A i \in 1..(Len(s) - 1) : ISOLess(s[i].date, s[i + 1].date)

\* C12: for every well-formed schedule S and every calendar, the schedule
\* derived with offset 0 equals S, entries on non-working days included.
C12_IdentityOffset ==
    Applied("deriveDependentSchedule") /\ pureIn.offset = 0
        /\ WellFormed(pureIn.schedule) =>
            pureOut.value = pureIn.schedule

\* C12 witness: offset 0 has been applied to a schedule with an entry on a
\* non-working day of the calendar.
C12_Witness ==
    /\ Applied("deriveDependentSchedule")
    /\ pureIn.offset = 0
    /\ WellFormed(pureIn.schedule)
    /\ \E i \in 1..Len(pureIn.schedule) :
           /\ ~IsWorkingDay(pureIn.schedule[i].date, pureIn.calendar)
           /\ isNonWorking(NewDate(pureIn.schedule[i].date), pureIn.calendar)

\* the quantities of the entries of s whose date the offset maps to target
RECURSIVE QuantityMappedTo(_, _, _, _)
QuantityMappedTo(s, target, offset, cal) ==
    IF s = <<>> THEN 0
    ELSE (IF addWorkingDaysFromISO(s[1].date, offset, cal) = target
          THEN s[1].quantity ELSE 0)
         + QuantityMappedTo(Tail(s), target, offset, cal)

\* C13: the derived schedule holds, for each target date, the sum of the
\* quantities of the primary entries mapped to it; its dates are unique and
\* ascending, its total is the primary's total, and an empty primary
\* schedule gives an empty result.
C13_Aggregation ==
    Applied("deriveDependentSchedule") =>
        /\ \A i \in 1..Len(pureOut.value) :
               pureOut.value[i].quantity =
                   QuantityMappedTo(pureIn.schedule, pureOut.value[i].date,
                                    pureIn.offset, pureIn.calendar)
        /\ \A i \in 1..(Len(pureOut.value) - 1) :
               ISOLess(pureOut.value[i].date, pureOut.value[i + 1].date)
        /\ SumQuantity(pureOut.value) = SumQuantity(pureIn.schedule)
        /\ pureIn.schedule = <<>> => pureOut.value = <<>>

\* C13 witness: two primary entries have been mapped to one target date.
C13_Witness ==
    /\ Applied("deriveDependentSchedule")
    /\ 0 < Len(pureOut.value)
    /\ Len(pureOut.value) < Len(pureIn.schedule)

\* C14: whatever the order of the primary schedule's entries, the derived
\* schedule (dates and quantities, in order) is the same.
C14_OrderIndependent ==
    Applied("deriveDependentSchedule") =>
        \A shuffled \in PermutationsOf(pureIn.schedule) :
            calculateScheduleFromOffsetWorkingDays(
                shuffled, pureIn.offset, pureIn.calendar) = pureOut.value

\* C14 witness: the function has been applied to entries that were not in
\* date order and has merged two of them.
C14_Witness ==
    /\ Applied("deriveDependentSchedule")
    /\ ~WellFormed(pureIn.schedule)
    /\ 1 < Len(pureOut.value)
    /\ Len(pureOut.value) < Len(pureIn.schedule)

-----------------------------------------------------------------------------
(* Properties of the strip distributor *)

\* the days the distributor collected for the call applied
CollectedDays ==
    workingDaysFrom(NewDate(pureIn.startDate), 0, pureIn.durationDays,
                    pureIn.calendar)

\* the working days of the calendar among the durationDays days from start
WorkingDaysInRange(startDate, durationDays, cal) ==
    WorkingDaysBetween(NewDate(startDate),
                       NewDate(startDate) + durationDays - 1, cal)

\* C15: for durationDays >= 1, totalQuantity >= 0 and a calendar with at
\* least one working day among the durationDays days from startDate, the
\* quantities of the distributor's output sum to totalQuantity.
C15_StripConservation ==
    Applied("distributeQuantity") /\ pureIn.durationDays >= 1
        /\ pureIn.totalQty >= 0
        /\ WorkingDaysInRange(pureIn.startDate, pureIn.durationDays,
                              pureIn.calendar) # {} =>
            SumQuantity(pureOut.value) = pureIn.totalQty

\* the same, whenever the distributor itself collected at least one day
C15_WhereADayIsCollected ==
    Applied("distributeQuantity") /\ pureIn.durationDays >= 1
        /\ pureIn.totalQty >= 0 /\ CollectedDays # <<>> =>
            SumQuantity(pureOut.value) = pureIn.totalQty

\* C16 as stated: whenever totalQuantity > 0 and the range has k > 0 working
\* days, the output has one entry for each of the k days.
C16_AsStated ==
    Applied("distributeQuantity") /\ pureIn.totalQty > 0
        /\ CollectedDays # <<>> =>
            /\ Len(pureOut.value) = Len(CollectedDays)
            /\ \A i \in 1..Len(CollectedDays) :
                   pureOut.value[i].date = CollectedDays[i]

\* C16 amended: entries are left at 0 and omitted whenever totalQuantity is
\* less than the number k of days collected: for totalQuantity >= 0 the
\* output has exactly one entry for each of the first min(k, totalQuantity)
\* collected days, each of positive quantity.
C16_OmittedEntries ==
    Applied("distributeQuantity") /\ pureIn.totalQty >= 0 =>
        /\ Len(pureOut.value) = Min(Len(CollectedDays), pureIn.totalQty)
        /\ \A i \in 1..Len(pureOut.value) :
               /\ pureOut.value[i].date = CollectedDays[i]
               /\ pureOut.value[i].quantity > 0

\* C16 witness: a positive total smaller than the number of collected days
\* has been distributed.
C16_Witness ==
    /\ Applied("distributeQuantity")
    /\ 0 < pureIn.totalQty
    /\ pureIn.totalQty < Len(CollectedDays)
    /\ Len(pureOut.value) = pureIn.totalQty

\* C17: when the range handed to the distributor holds no working day, the
\* primary schedule becomes empty, and with it the registry's primary
\* schedule and every eligible dependent schedule, also for a total > 0.
C17_NoWorkingDayGivesEmpty ==
    lastOp.name = "handleSewingTimelineChange"
        /\ WorkingDaysInRange(sewingStartDate, sewingDurationDays,
                              calendar) = {} =>
            /\ sewingSchedule = <<>>
            /\ ~effectPending =>
                   /\ processData[primaryProcess].schedule = <<>>
                   /\ \A id \in ProcIds :
                          Eligible(id) => processData[id].schedule = <<>>

\* the same, where the local zone is not behind UTC
C17_WhereZoneNotBehind == ~tzBehind => C17_NoWorkingDayGivesEmpty

\* C18: the distributor called with durationDays < 1 fails with an error
\* instead of handing a schedule to the primary.
C18_InvalidDuration ==
    Applied("distributeQuantity") /\ pureIn.durationDays < 1 => pureOut.threw

\* C19: a negative quantity is treated as 0 at every entry point: the
\* distributor called with a negative total, the timeline's total input and
\* a cell save give the schedules they give for 0, and nothing is thrown.
C19_NegativeIsZero ==
    /\ Applied("distributeQuantity") /\ pureIn.totalQty < 0 =>
           /\ ~pureOut.threw
           /\ pureOut.value =
                  recalcSewingSchedule(pureIn.startDate, pureIn.durationDays,
                                       0, pureIn.calendar)
    /\ Applied("totalInput") /\ pureIn.text.n < 0 =>
           /\ ~pureOut.threw
           /\ pureOut.value =
                  recalcSewingSchedule(pureIn.startDate,
                                       Max(1, pureIn.durationDays), 0,
                                       pureIn.calendar)
    /\ Applied("cellSave") /\ pureIn.text.n < 0 =>
           /\ ~pureOut.threw
           /\ pureOut.value =
                  balance(pureIn.schedule, pureIn.date, 0, pureIn.targetTotal,
                          pureIn.calendar, pureIn.allow)

\* C19 witness: a save of a negative text on an existing day has changed the
\* schedule.
C19_Witness ==
    /\ Applied("cellSave")
    /\ pureIn.text.n < 0
    /\ findIndex(pureIn.schedule, pureIn.date) > 0
    /\ ~pureOut.value.reverted
    /\ pureOut.value.schedule # pureIn.schedule

\* C20: when the day-creation confirmation is declined, the schedule handed
\* back is the pre-edit schedule: the edited day has its previous quantity,
\* or is absent if it had no entry, and no other entry has changed.
C20_DeclineReverts ==
    Applied("cellSave") /\ pureOut.value.asked /\ ~pureIn.allow =>
        pureOut.value.schedule = pureIn.schedule

\* C20 witness: the confirmation was declined after an edit that changed the
\* quantity of an existing day.
C20_Witness ==
    /\ Applied("cellSave")
    /\ pureOut.value.asked
    /\ ~pureIn.allow
    /\ findIndex(pureIn.schedule, pureIn.date) > 0
    /\ clampQuantity(pureIn.text) #
           pureIn.schedule[findIndex(pureIn.schedule, pureIn.date)].quantity

\* the confirmation was declined after an edit on a day without an entry
C20_DeclinedOnNewDay ==
    /\ Applied("cellSave")
    /\ pureOut.value.asked
    /\ ~pureIn.allow
    /\ findIndex(pureIn.schedule, pureIn.date) = 0
    /\ clampQuantity(pureIn.text) > 0

-----------------------------------------------------------------------------
(* Properties of the balancer *)

\* the quantity the schedule holds for the date, 0 when it has no entry
QuantityAt(s, date) ==
    IF findIndex(s, date) > 0 THEN s[findIndex(s, date)].quantity ELSE 0

\* the save applied sets the day to the quantity it already has
NoOpEdit ==
    /\ Applied("cellSave")
    /\ clampQuantity(pureIn.text) = QuantityAt(pureIn.schedule, pureIn.date)

\* C21 as stated: in every state of a dependent process, a save that sets a
\* day to the quantity it already has leaves the schedule unchanged.
C21_AsStated == NoOpEdit => pureOut.value.schedule = pureIn.schedule

\* C21 amended: such a save leaves the schedule unchanged, and asks for no
\* confirmation, whenever the schedule sums to the target total; when it
\* sums to something else the balancer redistributes the difference.
C21_NoOpEdit ==
    NoOpEdit /\ SumQuantity(pureIn.schedule) = pureIn.targetTotal =>
        /\ pureOut.value.schedule = pureIn.schedule
        /\ ~pureOut.value.asked

\* C21 witness: a day with an entry of positive quantity has been saved with
\* that quantity, in a schedule of two days summing to the target.
C21_Witness ==
    /\ NoOpEdit
    /\ SumQuantity(pureIn.schedule) = pureIn.targetTotal
    /\ Len(pureIn.schedule) = 2
    /\ QuantityAt(pureIn.schedule, pureIn.date) > 0

-----------------------------------------------------------------------------
(* Properties of the view levels *)

\* q * num / den rounded to the nearest integer, a tie going away from zero
\* (q >= 0)
RoundHalfAwayFromZero(q, num, den) ==
    CHOOSE r \in 0..(q * num + 1) :
        /\ 2 * den * r - den <= 2 * q * num
        /\ 2 * q * num < 2 * den * r + den

\* the multiplier of the level is num / den
HasMultiplier(level, num, den) ==
    VIEW_LEVEL_CONFIGS[level].num * den = num * VIEW_LEVEL_CONFIGS[level].den

\* C22: the projection shows round(q x multiplier), a tie rounded away from
\* zero, for multipliers 1, 2.5, 7 and 10; it leaves the stored schedule as
\* it is; at the base level it shows q itself; and strip is the one editable
\* level.
C22_ProjectForView ==
    Applied("projectForView") =>
        /\ \A date \in ProjectDates :
               pureOut.value.shown[date] =
                   RoundHalfAwayFromZero(
                       QuantityAt(pureIn.schedule, date),
                       VIEW_LEVEL_CONFIGS[pureIn.level].num,
                       VIEW_LEVEL_CONFIGS[pureIn.level].den)
        /\ pureOut.value.stored = pureIn.schedule
        /\ pureIn.level = "strip" =>
               \A date \in ProjectDates :
                   pureOut.value.shown[date] = QuantityAt(pureIn.schedule, date)
        /\ HasMultiplier("strip", 1, 1) /\ HasMultiplier("planning-unit", 5, 2)
        /\ HasMultiplier("order", 7, 1) /\ HasMultiplier("style", 10, 1)
        /\ {level \in ViewLevels : VIEW_LEVEL_CONFIGS[level].isEditable} = {"strip"}

\* C22 witness: at multiplier 2.5 the quantities 1 and 3 are shown as 3 and 8.
C22_Witness ==
    /\ Applied("projectForView")
    /\ pureIn.level = "planning-unit"
    /\ QuantityAt(pureIn.schedule, <<2024, 3, 1>>) = 1
    /\ pureOut.value.shown[<<2024, 3, 1>>] = 3
    /\ QuantityAt(pureIn.schedule, <<2024, 3, 2>>) = 3
    /\ pureOut.value.shown[<<2024, 3, 2>>] = 8

-----------------------------------------------------------------------------
(* Properties of the registry *)

\* C23: an offset change or a reset to automatic on a non-primary process
\* that is not frozen leaves it with isManualOverride false and with the
\* schedule derived from the current primary schedule, its (new) offset and
\* the current calendar; no other process changes.
C23_ResetOrOffsetDerives ==
    [][(Ran("handleOffsetChange") \/ Ran("resetToAutoSchedule"))
           /\ ~processData[lastOp'.processId].isFrozen =>
           LET id == lastOp'.processId
               primary == CHOOSE p \in ProcIds : processData'[p].isPrimary
           IN  /\ ~processData'[id].isManualOverride
               /\ processData'[id].schedule =
                      calculateScheduleFromOffsetWorkingDays(
                          processData'[primary].schedule,
                          processData'[id].offsetDays, calendar')
               /\ \A other \in ProcIds \ {id} :
                      processData'[other] = processData[other]]_vars

\* C23 witness: the offset of a process that is not frozen has been changed
\* and the process holds the schedule derived with the new offset.
C23_Witness ==
    /\ lastOp.name = "handleOffsetChange"
    /\ ~processData[lastOp.processId].isFrozen
    /\ processData[lastOp.processId].offsetDays \in OffsetInputs
    /\ processData[lastOp.processId].schedule # <<>>
    /\ processData[lastOp.processId].schedule = Derived(lastOp.processId)

Ascending(s) ==
    \A i \in 1..(Len(s) - 1) : ISOLess(s[i].date, s[i + 1].date)

C25_QuantitiesNonNegative ==
    \A id \in ProcIds :
        \A i \in 1..Len(processData[id].schedule) :
            processData[id].schedule[i].quantity \in Nat

\* C25 witness: an accepted save has left a dependent process with a
\* schedule other than the derived one.
C25_Witness ==
    /\ AfterAcceptedSave
    /\ ~effectPending
    /\ processData[lastOp.processId].schedule # Derived(lastOp.processId)

\* C25 witness of the revert: a declined confirmation has put the previous
\* quantity back.
C25_AfterRevert ==
    /\ lastOp.name = "handleCellSave"
    /\ lastOp.reverted
    /\ processData[lastOp.processId].schedule # <<>>

-----------------------------------------------------------------------------
(* Properties of the distributor's placement and of the balancer's branches *)

\* the position of working day d among the working days W, in date order
RankIn(W, d) == Cardinality({x \in W : x <= d})

\* C26: with W the working days among the durationDays days from startDate
\* and k = |W| > 0, every output date is in W, the first (total mod k) days
\* of W receive floor(total / k) + 1 and the others floor(total / k); start
\* 2024-03-01, 5 days, total 17, every day working gives 4, 4, 3, 3, 3.
C26_StripPlacement ==
    Applied("distributeQuantity") /\ pureIn.durationDays >= 1
        /\ pureIn.totalQty >= 0 =>
        LET W == WorkingDaysInRange(pureIn.startDate, pureIn.durationDays,
                                    pureIn.calendar)
            k == Cardinality(W)
        IN  k > 0 =>
                /\ \A i \in 1..Len(pureOut.value) :
                       NewDate(pureOut.value[i].date) \in W
                /\ \A d \in W :
                       QuantityAt(pureOut.value, toISO(d)) =
                           (pureIn.totalQty \div k)
                           + (IF RankIn(W, d) <= pureIn.totalQty % k
                              THEN 1 ELSE 0)

\* the same, where the local zone is not behind UTC
C26_WhereZoneNotBehind == ~tzBehind => C26_StripPlacement

\* Scenario B: start 2024-03-01, 5 days, total 17, no day excluded
C26_ScenarioB ==
    Applied("distributeQuantity") /\ pureIn.startDate = <<2024, 3, 1>>
        /\ pureIn.durationDays = 5 /\ pureIn.totalQty = 17
        /\ pureIn.calendar = [weekendsOff |-> FALSE, holidays |-> {}] =>
            pureOut.value =
                << Day(<<2024, 3, 1>>, 4), Day(<<2024, 3, 2>>, 4),
                   Day(<<2024, 3, 3>>, 3), Day(<<2024, 3, 4>>, 3),
                   Day(<<2024, 3, 5>>, 3) >>

\* the dates the schedule has entries for
DatesOf(s) == {s[i].date : i \in 1..Len(s)}

\* the save applied, its edited date and quantity, and the sum of the
\* schedule once the edit is placed
EditedQuantity == clampQuantity(pureIn.text)

PlacedSum ==
    SumQuantity(pureIn.schedule)
        - QuantityAt(pureIn.schedule, pureIn.date) + EditedQuantity

OtherDates == DatesOf(pureIn.schedule) \ {pureIn.date}

Excess == Applied("cellSave") /\ PlacedSum > pureIn.targetTotal

Deficit == Applied("cellSave") /\ PlacedSum < pureIn.targetTotal

\* C27: in an excess the days other than d give up quantity in descending
\* date order, a day being reduced only once every later day other than d has
\* been reduced to 0 and dropped, and d itself is reduced (and dropped at 0)
\* only once every other day has been dropped; the sum comes down to the
\* target.
C27_ExcessOrder ==
    Excess =>
        LET result == pureOut.value.schedule
        IN  /\ DatesOf(result) \subseteq DatesOf(pureIn.schedule) \cup {pureIn.date}
            /\ \A x \in OtherDates :
                   /\ QuantityAt(result, x) <= QuantityAt(pureIn.schedule, x)
                   /\ QuantityAt(result, x) < QuantityAt(pureIn.schedule, x) =>
                          \A y \in OtherDates :
                              ISOLess(x, y) => y \notin DatesOf(result)
                   /\ x \in DatesOf(result) => QuantityAt(result, x) > 0
            /\ QuantityAt(result, pureIn.date) <= EditedQuantity
            /\ QuantityAt(result, pureIn.date) < EditedQuantity =>
                   /\ DatesOf(result) \subseteq {pureIn.date}
                   /\ pureIn.date \in DatesOf(result) =>
                          QuantityAt(result, pureIn.date) > 0
            /\ SumQuantity(result) = pureIn.targetTotal
            /\ ~pureOut.value.asked

\* the same, for a schedule without an entry of quantity 0
C27_WhereNoZeroEntry ==
    Applied("cellSave")
        /\ (\A i \in 1..Len(pureIn.schedule) : pureIn.schedule[i].quantity > 0) =>
            C27_ExcessOrder

\* C28: in a deficit, when the schedule has a day other than d, the latest
\* such day takes the whole deficit, d holds the edited quantity, every other
\* day keeps its quantity and no confirmation is requested.
C28_DeficitAbsorption ==
    Deficit /\ OtherDates # {} =>
        LET result == pureOut.value.schedule
            latest == CHOOSE x \in OtherDates :
                          \A y \in OtherDates : x = y \/ ISOLess(y, x)
        IN  /\ ~pureOut.value.asked
            /\ DatesOf(result) \subseteq DatesOf(pureIn.schedule) \cup {pureIn.date}
            /\ Ascending(result)
            /\ QuantityAt(result, pureIn.date) = EditedQuantity
            /\ QuantityAt(result, latest) =
                   QuantityAt(pureIn.schedule, latest)
                   + (pureIn.targetTotal - PlacedSum)
            /\ \A x \in OtherDates \ {latest} :
                   QuantityAt(result, x) = QuantityAt(pureIn.schedule, x)

\* C28 witness: a deficit has been absorbed in a schedule with two days
\* other than d.
C28_Witness ==
    /\ Deficit
    /\ Cardinality(OtherDates) = 2
    /\ pureOut.value.schedule # pureIn.schedule

\* C29: in a deficit, when the schedule has no day other than d, the
\* confirmation is requested; once it is accepted exactly one entry is added,
\* holding the whole deficit and dated the smallest working day strictly
\* after d, the last date of the schedule, a date no entry has.
C29_DayCreation ==
    Deficit /\ OtherDates = {} =>
        /\ pureOut.value.asked
        /\ pureIn.allow =>
               LET result == pureOut.value.schedule
                   created == toISO(NthWorkingDay(pureIn.date, 1,
                                                  pureIn.calendar))
               IN  /\ DatesOf(result)
                          \ (DatesOf(pureIn.schedule) \cup {pureIn.date})
                          = {created}
                   /\ QuantityAt(result, created) =
                          pureIn.targetTotal - PlacedSum
                   /\ QuantityAt(result, pureIn.date) = EditedQuantity
                   /\ Ascending(result)
                   /\ IsWorkingDay(created, pureIn.calendar)

\* the same, where the local zone is not behind UTC
C29_WhereZoneNotBehind == ~tzBehind => C29_DayCreation

\* C30: a save sets isManualOverride exactly when the edit is accepted: an
\* accepted save leaves the flag true, a save reverted by a declined
\* confirmation leaves the process's flags as they were.
C30_OverrideIffAccepted ==
    [][Ran("handleCellSave") =>
           LET id == lastOp'.processId
           IN  IF lastOp'.reverted
               THEN /\ processData'[id].isManualOverride =
                           processData[id].isManualOverride
                    /\ processData'[id].isFrozen = processData[id].isFrozen
               ELSE processData'[id].isManualOverride]_vars

-----------------------------------------------------------------------------
(* Properties of an edit that meets the target *)

\* the entries of the schedule on days other than date, in order
OtherEntries(s, date) == SelectSeq(s, LAMBDA d : d.date # date)

\* the save applied leaves the sum equal to the target once it is placed
BalancedEdit == Applied("cellSave") /\ PlacedSum = pureIn.targetTotal

\* C31: when the edit placed at date d makes the schedule sum to the target
\* total, d holds the edited quantity, no entry of another day is changed,
\* added or removed, and no confirmation is requested; saving 04-01 as 50 in
\* [(04-01,100),(04-02,100)] with target 150 gives [(04-01,50),(04-02,100)].
C31_BalancedEdit ==
    /\ BalancedEdit =>
           LET result == pureOut.value.schedule
           IN  /\ OtherEntries(result, pureIn.date)
                      = OtherEntries(pureIn.schedule, pureIn.date)
               /\ QuantityAt(result, pureIn.date) = EditedQuantity
               /\ ~pureOut.value.asked
               /\ ~pureOut.value.reverted
    /\ Applied("cellSave") /\ pureIn.schedule = ScenarioCSchedule
           /\ pureIn.targetTotal = 150
           /\ pureIn.date = <<2024, 4, 1>> /\ pureIn.text = NumberText(50) =>
           pureOut.value.schedule =
               << Day(<<2024, 4, 1>>, 50), Day(<<2024, 4, 2>>, 100) >>

\* C31 witness: 04-01 has been saved as 50 in the schedule of two days of
\* 100 with target 150.
C31_Witness ==
    /\ BalancedEdit
    /\ pureIn.schedule = ScenarioCSchedule
    /\ pureIn.date = <<2024, 4, 1>>
    /\ EditedQuantity = 50
    /\ Len(pureOut.value.schedule) = 2

\* a day without an entry has been saved with a quantity that meets the
\* target: the entry is added and the others are kept
C31_OnNewDay ==
    /\ BalancedEdit
    /\ pureIn.date \notin DatesOf(pureIn.schedule)
    /\ EditedQuantity > 0
    /\ Len(pureIn.schedule) > 0

-----------------------------------------------------------------------------
(* Properties of the cell editor *)

\* the cells the grid shows for the dates clicked
GridCells == [processId : ProcIds, date : ClickDates]

\* C32: edits are serialized.  At most one cell is in edit mode, the text
\* being empty when none is; a save runs on the cell in edit mode, changes no
\* other process and leaves no cell in edit mode, so the next edit starts
\* after the pass (confirmation included) is over; a click on another cell
\* moves the editor to that cell with its stored quantity as text, and a
\* cancel closes the editor, neither changing a schedule or a flag.
C32_EditsSerialized ==
    [][/\ editingCell' \in GridCells \cup {NoCell}
       /\ editingCell' = NoCell => editValue' = EmptyText
       /\ Ran("handleCellSave") =>
              /\ editingCell # NoCell
              /\ lastOp'.processId = editingCell.processId
              /\ editingCell' = NoCell
              /\ \A id \in ProcIds \ {editingCell.processId} :
                     processData'[id] = processData[id]
       /\ Ran("handleCellClick") =>
              /\ processData' = processData
              /\ editingCell' \in GridCells \ {editingCell}
              /\ editValue' =
                     NumberText(QuantityAt(
                         processData[editingCell'.processId].schedule,
                         editingCell'.date))
       /\ Ran("handleCellCancel") =>
              /\ editingCell # NoCell
              /\ processData' = processData
              /\ editingCell' = NoCell
       /\ Ran("handleCellClick") \/ Ran("handleCellCancel") =>
              UNCHANGED <<viewLevel, calendar, sewingSchedule, sewingStartDate,
                          sewingDurationDays, sewingTotalQuantity,
                          effectPending>>]_vars

\* C32 witness: the edit started by the first operation has been cancelled
\* by the second.
C32_Witness ==
    /\ lastOp.name = "handleCellCancel"
    /\ nOps = 2
    /\ editingCell = NoCell
    /\ editValue = EmptyText


-----------------------------------------------------------------------------
(* Properties of the primary process's cells *)

\* C33: a save on a cell of the primary process does no balancing: the
\* entry of the edited date is set to the new quantity, or removed (or not
\* created) when that is 0, every other entry is kept as it is and in place,
\* whatever the schedule sums to; and a click on a cell of the primary row
\* puts no cell in edit mode, at any view level.
C33_PrimaryBypassesBalancing ==
    /\ Applied("primarySave") =>
           LET result == pureOut.value
               newQuantity == clampQuantity(pureIn.text)
           IN  /\ OtherEntries(result, pureIn.date)
                      = OtherEntries(pureIn.schedule, pureIn.date)
               /\ IF newQuantity = 0
                  THEN pureIn.date \notin DatesOf(result)
                  ELSE /\ QuantityAt(result, pureIn.date) = newQuantity
                       /\ Len(result) =
                              Len(OtherEntries(pureIn.schedule, pureIn.date)) + 1
               /\ Ascending(result)
    /\ Applied("cellClick") /\ pureIn.isPrimary => pureOut.value = NoCell

\* C33 witness: a day of a primary schedule of several days has been saved
\* as 0 and its entry removed.
C33_Witness ==
    /\ Applied("primarySave")
    /\ pureIn.date \in DatesOf(pureIn.schedule)
    /\ clampQuantity(pureIn.text) = 0
    /\ Len(pureIn.schedule) > 1
    /\ Len(pureOut.value) = Len(pureIn.schedule) - 1

\* a cell of a row that is neither primary nor frozen has been clicked at
\* the editable level and is in edit mode
C33_ClickWitness ==
    /\ Applied("cellClick")
    /\ ~pureIn.isPrimary
    /\ pureOut.value # NoCell

\* in the application no cell of the primary process is ever in edit mode
C33_NoPrimaryCellInEditMode ==
    editingCell # NoCell => ~processData[editingCell.processId].isPrimary


-----------------------------------------------------------------------------
(* Properties of the working-day loops *)

\* the working days of the window strictly beyond the call's date in the
\* direction it steps
WorkingDaysAhead ==
    {d \in DayNumbers :
        /\ IF pureIn.n > 0 THEN d > NewDate(pureIn.date)
                           ELSE d < NewDate(pureIn.date)
        /\ ~isNonWorking(d, pureIn.calendar)}

C34_StillRunning ==
    /\ ~pureOut.done
    /\ pureIn.n # 0
    /\ WorkingDaysAhead = {}
    /\ pureOut.value.pos = "loop"
    /\ pureOut.value.date + LoopDirection \notin DayNumbers


-----------------------------------------------------------------------------
(* Properties of the two calendar implementations *)

\* C35: the grid's isNonWorkingISO and the registry's isNonWorking give the
\* same answer for every date and calendar, a day being working exactly when
\* it is no holiday and, with weekends excluded, neither Saturday nor Sunday;
\* and the grid's nextWorkingDayAfter(date) is addWorkingDaysFromISO(date, 1).
C35_CalendarsAgree ==
    Applied("calendar") =>
        /\ pureOut.value.grid = pureOut.value.registry
        /\ pureOut.value.grid = ~IsWorkingDay(pureIn.date, pureIn.calendar)
        /\ pureOut.value.next = pureOut.value.plusOne
        /\ IsWorkingDay(pureOut.value.next, pureIn.calendar)

\* the two implementations give the same answers as each other, in either
\* zone
C35_ImplementationsAgree ==
    Applied("calendar") =>
        /\ pureOut.value.grid = pureOut.value.registry
        /\ pureOut.value.next = pureOut.value.plusOne

\* the same as C35, where the local zone is not behind UTC
C35_WhereZoneNotBehind == ~tzBehind => C35_CalendarsAgree


-----------------------------------------------------------------------------
(* Properties of the primary schedule in the application *)

\* every entry of the schedule is dated on a working day of the calendar
OnWorkingDays(s, cal) == \A i \in 1..Len(s) : IsWorkingDay(s[i].date, cal)

\* C36: in every reachable state, the initial one included, every entry of
\* the primary schedule (the sewing schedule and the primary process's copy
\* of it) is dated on a working day of the current calendar.
C36_PrimaryOnWorkingDays ==
    /\ OnWorkingDays(sewingSchedule, calendar)
    /\ OnWorkingDays(processData[primaryProcess].schedule, calendar)

\* the same, where the zone is not behind UTC, for the states whose sewing
\* schedule is not the initial one and has reached the registry
C36_OnceRedistributed ==
    ~effectPending /\ ~tzBehind /\ sewingSchedule # InitialSewingSchedule =>
        C36_PrimaryOnWorkingDays

\* what does hold: where the zone is not behind UTC, the schedule a timeline
\* change sets has its entries on working days of the calendar of that moment
C36_WhenDistributed ==
    [][Ran("handleSewingTimelineChange") /\ ~tzBehind =>
           OnWorkingDays(sewingSchedule', calendar)]_vars


\* C37: the sewing schedule changes only when the timeline changes, to the
\* Strip Distributor's output for the timeline's new values and the current
\* calendar; once the effect has run, whatever timeline and calendar changes
\* came before, the primary process's schedule in the registry is that
\* output, and when it is non-empty its quantities sum to the timeline's
\* total quantity.
C37_PrimaryIsDistributorOutput ==
    [][/\ sewingSchedule' # sewingSchedule =>
              /\ Ran("handleSewingTimelineChange")
              /\ sewingSchedule' =
                     recalcSewingSchedule(sewingStartDate', sewingDurationDays',
                                          sewingTotalQuantity', calendar)
       /\ ~effectPending' =>
              /\ processData'[primaryProcess].schedule = sewingSchedule'
              /\ processData'[primaryProcess].isPrimary
              /\ sewingSchedule' # <<>> =>
                     SumQuantity(processData'[primaryProcess].schedule)
                         = sewingTotalQuantity']_vars

\* C37 witness: after a timeline change and a calendar change the registry
\* holds a primary schedule that is neither empty nor the initial one.
C37_Witness ==
    /\ ~effectPending
    /\ nOps >= 2
    /\ calendar # [weekendsOff |-> TRUE, holidays |-> {}]
    /\ sewingSchedule # InitialSewingSchedule
    /\ Len(sewingSchedule) > 1
    /\ processData[primaryProcess].schedule = sewingSchedule
    /\ SumQuantity(sewingSchedule) = sewingTotalQuantity


-----------------------------------------------------------------------------
(* Properties of the dates of a derived schedule *)

\* C38: for every nonzero offset, every entry of the derived schedule is
\* dated on a working day of the calendar passed, wherever the primary
\* entries are dated, non-working days included.
C38_DerivedOnWorkingDays ==
    Applied("deriveDependentSchedule") /\ pureIn.offset # 0 =>
        OnWorkingDays(pureOut.value, pureIn.calendar)

\* the same, where the local zone is not behind UTC
C38_WhereZoneNotBehind == ~tzBehind => C38_DerivedOnWorkingDays

\* a primary schedule with entries on a Saturday and a Sunday has been
\* shifted with weekends excluded
C38_FromNonWorkingDays ==
    /\ Applied("deriveDependentSchedule")
    /\ pureIn.offset # 0
    /\ pureIn.calendar.weekendsOff
    /\ ~OnWorkingDays(pureIn.schedule, pureIn.calendar)
    /\ pureOut.value # <<>>

-----------------------------------------------------------------------------
(* Properties of the timeline's changes *)

\* the last day of the strip, and of the strip a change asks for
StripEnd == NewDate(sewingStartDate) + sewingDurationDays - 1

EndOf(change) == NewDate(change[1]) + change[2] - 1

\* the cell of the axis a change's start date falls on
CellOf(change) == NewDate(change[1]) - NewDate(windowStartDate)

\* every change the inputs and the keys can emit in the current state has a
\* duration of 1 or more; an arrow key keeps the duration, shift-right the
\* start date and shift-left the end date of the current strip
KeyAndInputChanges ==
    /\ \A value \in StartDateValues : startDateChange(value)[2] >= 1
    /\ \A text \in DurationTexts :
           /\ durationChange(text)[2] >= 1
           /\ durationChange(text)[1] = sewingStartDate
    /\ \A text \in TotalTexts : totalChange(text)[2] >= 1
    /\ sewingDurationDays >= 1 =>
           \A key \in ArrowKeys :
               /\ keyChange(key, FALSE)[2] = sewingDurationDays
               /\ keyChange(key, TRUE)[2] >= 1
               /\ key = "ArrowRight" =>
                      keyChange(key, TRUE)[1] = sewingStartDate
               /\ key = "ArrowLeft" => EndOf(keyChange(key, TRUE)) = StripEnd

\* C39 as stated: every change the timeline emits has durationDays >= 1,
\* so the distributor is never called with less; a move keeps the duration
\* of the strip, a resize-right its start date and a resize-left its end
\* date.
C39_AsStated ==
    /\ sewingDurationDays >= 1
    /\ TimelineReady =>
           /\ KeyAndInputChanges
           /\ dragState # NoDrag =>
                  \A deltaCells \in DeltaCells :
                      LET change == dragChange(deltaCells)
                      IN  /\ change[2] >= 1
                          /\ dragState.mode = "move" =>
                                 change[2] = sewingDurationDays
                          /\ dragState.mode = "resize-right" =>
                                 change[1] = sewingStartDate
                          /\ dragState.mode = "resize-left" =>
                                 EndOf(change) = StripEnd

\* C39, what the drag does keep: every change the timeline emits has
\* durationDays >= 1, so the distributor is never called with less; keys and
\* inputs are as stated; a drag works from the strip as it was when the drag
\* began: a move emits the duration of that moment, a resize-left keeps the
\* end cell of that moment, and a resize-right keeps the current start date.
C39_TimelineChanges ==
    /\ sewingDurationDays >= 1
    /\ TimelineReady =>
           /\ KeyAndInputChanges
           /\ dragState # NoDrag =>
                  /\ dragState.duration >= 1
                  /\ \A deltaCells \in DeltaCells :
                         LET change == dragChange(deltaCells)
                         IN  /\ change[2] >= 1
                             /\ dragState.mode = "move" =>
                                    change[2] = dragState.duration
                             /\ dragState.mode = "resize-right" =>
                                    change[1] = sewingStartDate
                             /\ dragState.mode = "resize-left" =>
                                    CellOf(change) + change[2] =
                                        dragState.startIndex
                                            + dragState.duration

\* C39: during a resize a change has shortened the strip to one day.
C39_Witness ==
    /\ dragState.mode \in {"resize-left", "resize-right"}
    /\ lastOp.name = "handleSewingTimelineChange"
    /\ dragState.duration > 1
    /\ sewingDurationDays = 1
    /\ TimelineReady

\* a drag is under way on a strip that a key or an input has changed since
\* the drag began
C39_StaleDrag ==
    /\ dragState.mode = "move"
    /\ dragState.duration # sewingDurationDays
    /\ TimelineReady

====
